---- MODULE Spec2Model ----
(***************************************************************************)
(* Concatenation nodes of the PyBaMM expression tree                       *)
(* (pybamm/expression_tree/concatenations.py): domain validation, the      *)
(* slice layout of DomainConcatenation, its evaluation and Jacobian, the   *)
(* variable-aware name merge and the simplifying constructors.             *)
(*                                                                         *)
(* A run is one construction: Init draws the argument list (and the mesh), *)
(* one constructor is applied to it, and the operations of the built node  *)
(* (evaluate, Jacobian, re-simplification, copy) follow.                   *)
(***************************************************************************)
EXTENDS Integers, Sequences, FiniteSets, TLC

VARIABLES
    children,   \* the argument list handed to the constructor
    full_mesh,  \* the mesh argument: domain name -> npts
    pc,         \* "start" | "built" | "done"
    op,         \* the constructor that was applied ("" before)
    result,     \* what the constructor returned or raised
    out         \* what the follow-up operation on the result returned or raised

vars == <<children, full_mesh, pc, op, result, out>>

----------------------------------------------------------------------------
(* Bounds of the model *)

\* longest argument list
MaxChildren == 3
\* largest number of mesh points of a primary domain in the enumerated meshes
MaxNpts == 2
\* number of rows of the state vector that the enumerated StateVectors read
MaxRow == 3
\* number of mesh points of the auxiliary domain "current collector"
MaxRepeat == 2

----------------------------------------------------------------------------
(* Generic helpers *)

Range(s) == {s[i] : i \in 1..Len(s)}

SeqsUpTo(S, n) == UNION {[1..k -> S] : k \in 0..n}

Last(s) == s[Len(s)]

Min(a, b) == IF a < b THEN a ELSE b

Null == [kind |-> "null"]

\* a raised exception
Raise(error, msg) == [kind |-> "Error", error |-> error, msg |-> msg]

IsError(r) == r.kind = "Error"

Raised(r, error) == r.kind = "Error" /\ r.error = error

----------------------------------------------------------------------------
(* Expression nodes *)

NegativeElectrode == "negative electrode"
Separator == "separator"
PositiveElectrode == "positive electrode"
CurrentCollector == "current collector"

PrimaryNames == {NegativeElectrode, Separator, PositiveElectrode}

AuxLevels == <<"secondary", "tertiary", "quaternary">>

Domains(p, s, t, q) ==
    [primary |-> p, secondary |-> s, tertiary |-> t, quaternary |-> q]

(* A name is a Python str, modelled as the sequence of its characters; NoName
   stands for the value None where a name is expected. *)
NoName == <<>>

ConcatenationName == <<"c", "o", "n", "c", "a", "t", "e", "n", "a", "t", "i", "o", "n">>

NumpyConcatenationName == <<"n", "u", "m", "p", "y", "_", "c", "o", "n", "c", "a", "t", "e", "n", "a", "t", "i", "o", "n">>

DomainConcatenationName == <<"d", "o", "m", "a", "i", "n", "_", "c", "o", "n", "c", "a", "t", "e", "n", "a", "t", "i", "o", "n">>

SparseStackName == <<"s", "p", "a", "r", "s", "e", "_", "s", "t", "a", "c", "k">>

\* a pybamm.Symbol that is neither a Variable nor a StateVector nor constant
Symbol(name, p, s) ==
    [kind |-> "Symbol", name |-> name, children |-> <<>>,
     domains |-> Domains(p, s, <<>>, <<>>)]

\* pybamm.Variable: a Symbol with scale, reference and bounds
Variable(name, p, s, scale) ==
    [kind |-> "Variable", name |-> name, children |-> <<>>,
     domains |-> Domains(p, s, <<>>, <<>>),
     scale |-> scale, reference |-> 0, bounds |-> <<0, 1>>]

\* an argument that is no pybamm.Symbol (a Python number, say)
NotSymbol == [kind |-> "NotSymbol"]

\* the Python value None
None == [kind |-> "None"]

SymbolKinds ==
    {"Symbol", "Variable", "StateVector", "Scalar", "Vector", "Multiplication",
     "Index", "Jacobian", "Matrix", "PrimaryBroadcast", "FullBroadcast",
     "Concatenation", "NumpyConcatenation", "DomainConcatenation", "SparseStack",
     "ConcatenationVariable"}

\* isinstance(x, pybamm.Symbol)
IsSymbol(x) == x.kind \in SymbolKinds

\* isinstance(x, pybamm.Variable)
IsVariable(x) == x.kind = "Variable"

----------------------------------------------------------------------------
(* Concatenation.get_children_domains *)

\* set(domain).isdisjoint(child_domain)
IsDisjoint(domain, child_domain) == Range(domain) \cap Range(child_domain) = {}

\* CombineDomains without the test for an empty child domain
RECURSIVE CombineDomains_NoEmptyCheck(_, _, _)
CombineDomains_NoEmptyCheck(cs, i, domain) ==
    IF i > Len(cs) THEN [kind |-> "ok", domain |-> domain]
    ELSE IF ~IsSymbol(cs[i]) THEN Raise("TypeError", "is not a pybamm symbol")
    ELSE IF IsDisjoint(domain, cs[i].domains.primary)
        THEN CombineDomains_NoEmptyCheck(cs, i + 1, domain \o cs[i].domains.primary)
    ELSE Raise("DomainError", "domain of children must be disjoint")

\* CombineDomains without the test for disjoint domains
RECURSIVE CombineDomains_NoDisjointCheck(_, _, _)
CombineDomains_NoDisjointCheck(cs, i, domain) ==
    IF i > Len(cs) THEN [kind |-> "ok", domain |-> domain]
    ELSE IF ~IsSymbol(cs[i]) THEN Raise("TypeError", "is not a pybamm symbol")
    ELSE IF cs[i].domains.primary = <<>>
        THEN Raise("DomainError", "Cannot concatenate child with empty domain")
    ELSE CombineDomains_NoDisjointCheck(cs, i + 1, domain \o cs[i].domains.primary)

\* CombineDomains raising DomainError for a child that is no Symbol
RECURSIVE CombineDomains_NonSymbolDomainError(_, _, _)
CombineDomains_NonSymbolDomainError(cs, i, domain) ==
    IF i > Len(cs) THEN [kind |-> "ok", domain |-> domain]
    ELSE IF ~IsSymbol(cs[i]) THEN Raise("DomainError", "is not a pybamm symbol")
    ELSE IF cs[i].domains.primary = <<>>
        THEN Raise("DomainError", "Cannot concatenate child with empty domain")
    ELSE IF IsDisjoint(domain, cs[i].domains.primary)
        THEN CombineDomains_NonSymbolDomainError(cs, i + 1,
                                                 domain \o cs[i].domains.primary)
    ELSE Raise("DomainError", "domain of children must be disjoint")

\* the loop over the children that combines the primary domains: the combined
\* domain, or the first error raised
RECURSIVE CombineDomains(_, _, _)
CombineDomains(cs, i, domain) ==
    IF i > Len(cs) THEN [kind |-> "ok", domain |-> domain]
    ELSE IF ~IsSymbol(cs[i]) THEN Raise("TypeError", "is not a pybamm symbol")
    ELSE IF cs[i].domains.primary = <<>>
        THEN Raise("DomainError", "Cannot concatenate child with empty domain")
    ELSE IF IsDisjoint(domain, cs[i].domains.primary)
        THEN CombineDomains(cs, i + 1, domain \o cs[i].domains.primary)
    ELSE Raise("DomainError", "domain of children must be disjoint")

\* the check of the auxiliary levels of children[1:] against those of children[0]
AuxiliaryMismatch(cs) ==
    \E l \in 1..Len(AuxLevels) :
        /\ cs[1].domains[AuxLevels[l]] # <<>>
        /\ \E j \in 2..Len(cs) :
               cs[j].domains[AuxLevels[l]] \notin {cs[1].domains[AuxLevels[l]], <<>>}

\* get_children_domains merging the dictionaries the other way round, so that
\* children[0]'s primary domain overrides the combined one
get_children_domains_FirstPrimary(cs) ==
    LET combined == CombineDomains(cs, 1, <<>>) IN
    IF IsError(combined) THEN combined
    ELSE IF Len(cs) = 0 THEN Raise("IndexError", "list index out of range")
    ELSE IF AuxiliaryMismatch(cs)
        THEN Raise("DomainError", "children must have same or empty auxiliary domains")
    ELSE [kind |-> "ok", domains |-> cs[1].domains]

get_children_domains(cs) ==
    LET combined == CombineDomains(cs, 1, <<>>) IN
    IF IsError(combined) THEN combined
    ELSE IF Len(cs) = 0 THEN Raise("IndexError", "list index out of range")
    ELSE IF AuxiliaryMismatch(cs)
        THEN Raise("DomainError", "children must have same or empty auxiliary domains")
    ELSE [kind |-> "ok",
          domains |-> [cs[1].domains EXCEPT !.primary = combined.domain]]

----------------------------------------------------------------------------
(* Concatenation.__init__ *)

\* ConcatenationInit without the guard against Variables
ConcatenationInit_NoVariableGuard(cls, cs, name, check_domain) ==
    LET doms == IF check_domain THEN get_children_domains(cs)
                ELSE [kind |-> "ok", domains |-> Domains(<<>>, <<>>, <<>>, <<>>)] IN
    IF IsError(doms) THEN doms
    ELSE [kind |-> cls,
          name |-> IF name = NoName THEN ConcatenationName ELSE name,
          children |-> cs, domains |-> doms.domains]

\* cls is type(self); the node, or the error raised
ConcatenationInit(cls, cs, name, check_domain) ==
    IF (\A i \in 1..Len(cs) : IsVariable(cs[i])) /\ cls = "Concatenation"
        THEN Raise("TypeError", "'ConcatenationVariable' should be used")
    ELSE LET doms == IF check_domain THEN get_children_domains(cs)
                     ELSE [kind |-> "ok", domains |-> Domains(<<>>, <<>>, <<>>, <<>>)] IN
         IF IsError(doms) THEN doms
         ELSE [kind |-> cls,
               name |-> IF name = NoName THEN ConcatenationName ELSE name,
               children |-> cs, domains |-> doms.domains]

----------------------------------------------------------------------------
(* The mesh: full_mesh[dom].npts *)

\* npts of the submesh of one domain name
Npts(mesh, name) == mesh[name]

\* full_mesh[dom].npts for a list of domain names (an auxiliary level): the
\* point counts of its names multiplied
RECURSIVE MeshNpts(_, _)
MeshNpts(mesh, dom) ==
    IF dom = <<>> THEN 1 ELSE Npts(mesh, Head(dom)) * MeshNpts(mesh, Tail(dom))

----------------------------------------------------------------------------
(* DomainConcatenation: construction *)

\* AuxiliaryRepeatsFrom that stops after the secondary level
AuxiliaryRepeatsFrom_SecondaryOnly(mesh, domains, l) ==
    IF domains.secondary # <<>> THEN MeshNpts(mesh, domains.secondary) ELSE 1

\* the loop of _get_auxiliary_domain_repeats over the levels, from level l on
RECURSIVE AuxiliaryRepeatsFrom(_, _, _)
AuxiliaryRepeatsFrom(mesh, domains, l) ==
    IF l > Len(AuxLevels) THEN 1
    ELSE (IF domains[AuxLevels[l]] # <<>>
              THEN MeshNpts(mesh, domains[AuxLevels[l]]) ELSE 1)
         * AuxiliaryRepeatsFrom(mesh, domains, l + 1)

_get_auxiliary_domain_repeats(mesh, auxiliary_domains) ==
    AuxiliaryRepeatsFrom(mesh, auxiliary_domains, 1)

(* A slice table is the defaultdict(list) of create_slices kept in insertion
   order: a sequence of entries [dom, list], list being a sequence of slices
   [start, stop]. *)

Slice(start, stop) == [start |-> start, stop |-> stop]

HasKey(slices, dom) == \E k \in 1..Len(slices) : slices[k].dom = dom

\* slices[dom] of a defaultdict(list): the empty list for a missing key
Lookup(slices, dom) ==
    IF HasKey(slices, dom)
        THEN slices[CHOOSE k \in 1..Len(slices) : slices[k].dom = dom].list
        ELSE <<>>

\* slices[dom].append(sl)
AppendSlice(slices, dom, sl) ==
    IF HasKey(slices, dom)
        THEN [k \in 1..Len(slices) |->
                 IF slices[k].dom = dom
                     THEN [slices[k] EXCEPT !.list = Append(@, sl)]
                     ELSE slices[k]]
        ELSE Append(slices, [dom |-> dom, list |-> <<sl>>])

\* the inner loop of create_slices, "for dom in node.domain", from the d-th
\* name on: the table and the cursor after it
RECURSIVE SliceDomains(_, _, _, _, _)
SliceDomains(mesh, domain, d, start, slices) ==
    IF d > Len(domain) THEN [start |-> start, slices |-> slices]
    ELSE LET end == start + Npts(mesh, domain[d]) IN
         SliceDomains(mesh, domain, d + 1, end,
                      AppendSlice(slices, domain[d], Slice(start, end)))

\* SliceRepeats with the cursor reset to 0 in every repeat
RECURSIVE SliceRepeats_ResetCursor(_, _, _, _, _, _)
SliceRepeats_ResetCursor(mesh, domain, second_pts, i, start, slices) ==
    IF i >= second_pts THEN slices
    ELSE LET inner == SliceDomains(mesh, domain, 1, 0, slices) IN
         SliceRepeats_ResetCursor(mesh, domain, second_pts, i + 1, inner.start,
                                  inner.slices)

\* the outer loop of create_slices, "for i in range(second_pts)", from i on
RECURSIVE SliceRepeats(_, _, _, _, _, _)
SliceRepeats(mesh, domain, second_pts, i, start, slices) ==
    IF i >= second_pts THEN slices
    ELSE LET inner == SliceDomains(mesh, domain, 1, start, slices) IN
         SliceRepeats(mesh, domain, second_pts, i + 1, inner.start, inner.slices)

\* self.create_slices(node): self_domains and secondary_dimensions_npts are
\* self's, node_domain is node.domain
create_slices(mesh, self_domains, secondary_dimensions_npts, node_domain) ==
    LET second_pts == _get_auxiliary_domain_repeats(mesh, self_domains) IN
    IF second_pts # secondary_dimensions_npts
        THEN Raise("ValueError",
                   "Concatenation and children must have the same number of points")
    ELSE [kind |-> "ok",
          slices |-> SliceRepeats(mesh, node_domain, second_pts, 0, 0, <<>>)]

\* the first error among the children's slice tables, or the list of tables
RECURSIVE ChildrenSlices(_, _, _, _, _, _)
ChildrenSlices(mesh, self_domains, npts, cs, i, acc) ==
    IF i > Len(cs) THEN [kind |-> "ok", list |-> acc]
    ELSE LET t == create_slices(mesh, self_domains, npts, cs[i].domains.primary) IN
         IF IsError(t) THEN t
         ELSE ChildrenSlices(mesh, self_domains, npts, cs, i + 1, Append(acc, t.slices))

\* DomainConcatenationInit that computes the layout whatever copy_this is
DomainConcatenationInit_IgnoreCopyThis(cs, mesh, copy_this) ==
    LET base == ConcatenationInit("DomainConcatenation", cs, DomainConcatenationName, TRUE) IN
    IF IsError(base) THEN base
    ELSE LET npts == _get_auxiliary_domain_repeats(mesh, base.domains)
             own == create_slices(mesh, base.domains, npts, base.domains.primary)
             lastList == Lookup(own.slices, Last(base.domains.primary))
             kids == ChildrenSlices(mesh, base.domains, npts, cs, 1, <<>>)
         IN  IF IsError(own) THEN own
             ELSE IF lastList = <<>> THEN Raise("IndexError", "list index out of range")
             ELSE IF IsError(kids) THEN kids
             ELSE [kind |-> "DomainConcatenation", name |-> base.name,
                   children |-> cs, domains |-> base.domains,
                   full_mesh |-> mesh,
                   secondary_dimensions_npts |-> npts,
                   slices |-> own.slices,
                   size |-> Last(lastList).stop,
                   children_slices |-> kids.list]

\* DomainConcatenation.__init__(children, full_mesh, copy_this); copy_this is
\* Null for None
DomainConcatenationInit(cs, mesh, copy_this) ==
    LET base == ConcatenationInit("DomainConcatenation", cs, DomainConcatenationName, TRUE) IN
    IF IsError(base) THEN base
    ELSE IF copy_this = Null THEN
        LET npts == _get_auxiliary_domain_repeats(mesh, base.domains)
            own == create_slices(mesh, base.domains, npts, base.domains.primary)
            lastList == Lookup(own.slices, Last(base.domains.primary))
            kids == ChildrenSlices(mesh, base.domains, npts, cs, 1, <<>>)
        IN  IF IsError(own) THEN own
            ELSE IF lastList = <<>> THEN Raise("IndexError", "list index out of range")
            ELSE IF IsError(kids) THEN kids
            ELSE [kind |-> "DomainConcatenation", name |-> base.name,
                  children |-> cs, domains |-> base.domains,
                  full_mesh |-> mesh,
                  secondary_dimensions_npts |-> npts,
                  slices |-> own.slices,
                  size |-> Last(lastList).stop,
                  children_slices |-> kids.list]
    ELSE [kind |-> "DomainConcatenation", name |-> base.name,
          children |-> cs, domains |-> base.domains,
          full_mesh |-> copy_this.full_mesh,
          secondary_dimensions_npts |-> copy_this.secondary_dimensions_npts,
          slices |-> copy_this.slices,
          size |-> copy_this.size,
          children_slices |-> copy_this.children_slices]

----------------------------------------------------------------------------
(* DomainConcatenation: evaluation *)

\* an entry of np.empty that no assignment has written
Unwritten == <<>>

\* the stop of the last slice of a slice table: the length of the vector the
\* table lays out
RECURSIVE TableSize(_)
TableSize(slices) ==
    IF slices = <<>> THEN 0
    ELSE LET rest == TableSize(Tail(slices))
             mine == Last(Head(slices).list).stop
         IN  IF mine > rest THEN mine ELSE rest

\* child.evaluate(t, y, y_dot, inputs) of the c-th child: a vector laid out by
\* the child's own slice table, its k-th entry named <<c, k>>
ChildEval(node, c) == [k \in 1..TableSize(node.children_slices[c]) |-> <<c, k - 1>>]

\* the loop of Concatenation.evaluate over the children
ChildrenEval(node) == [c \in 1..Len(node.children) |-> ChildEval(node, c)]

\* SubVector ignoring the start of the slice: child_vector[:len]
SubVector_FromZero(v, sl) ==
    LET stop == Min(sl.stop - sl.start, Len(v)) IN
    IF stop <= 0 THEN <<>> ELSE [k \in 1..stop |-> v[k]]

\* child_vector[_slice]
SubVector(v, sl) ==
    LET stop == Min(sl.stop, Len(v)) IN
    IF stop <= sl.start THEN <<>>
    ELSE [k \in 1..(stop - sl.start) |-> v[sl.start + k]]

\* vector[target] = values, on the state st = [vector, writes] of the output
\* (numpy assigns equal lengths elementwise and broadcasts a single row)
AssignSlice(st, target, values) ==
    LET n == target.stop - target.start IN
    IF Len(values) # n /\ Len(values) # 1
        THEN Raise("ValueError", "could not broadcast input array")
    ELSE [kind |-> "vector",
          vector |-> [k \in 1..Len(st.vector) |->
                         IF k > target.start /\ k <= target.stop
                             THEN (IF Len(values) = n THEN values[k - target.start]
                                   ELSE values[1])
                             ELSE st.vector[k]],
          writes |-> [k \in 1..Len(st.writes) |->
                         IF k > target.start /\ k <= target.stop
                             THEN st.writes[k] + 1 ELSE st.writes[k]]]

\* "for i, _slice in enumerate(child_slice)" from i on (i counts from 0)
RECURSIVE EvalSlices(_, _, _, _, _, _)
EvalSlices(node, st, child_vector, child_dom, child_slice, i) ==
    IF IsError(st) \/ i >= Len(child_slice) THEN st
    ELSE IF i >= Len(Lookup(node.slices, child_dom))
        THEN Raise("IndexError", "list index out of range")
    ELSE EvalSlices(node,
                    AssignSlice(st, Lookup(node.slices, child_dom)[i + 1],
                                SubVector(child_vector, child_slice[i + 1])),
                    child_vector, child_dom, child_slice, i + 1)

\* "for child_dom, child_slice in slices.items()" from the k-th entry on
RECURSIVE EvalDomains(_, _, _, _, _)
EvalDomains(node, st, child_vector, slices, k) ==
    IF IsError(st) \/ k > Len(slices) THEN st
    ELSE EvalDomains(node,
                     EvalSlices(node, st, child_vector, slices[k].dom, slices[k].list, 0),
                     child_vector, slices, k + 1)

\* "for child_vector, slices in zip(children_eval, self._children_slices)"
RECURSIVE EvalChildren(_, _, _, _)
EvalChildren(node, st, children_eval, c) ==
    IF IsError(st) \/ c > Min(Len(children_eval), Len(node.children_slices)) THEN st
    ELSE EvalChildren(node,
                      EvalDomains(node, st, children_eval[c], node.children_slices[c], 1),
                      children_eval, c + 1)

\* DomainConcatenation._concatenation_evaluate(children_eval)
_concatenation_evaluate(node, children_eval) ==
    EvalChildren(node,
                 [kind |-> "vector",
                  vector |-> [k \in 1..node.size |-> Unwritten],
                  writes |-> [k \in 1..node.size |-> 0]],
                 children_eval, 1)

----------------------------------------------------------------------------
(* DomainConcatenation: Jacobian *)

\* pybamm.Index(child_jac, sl): rows sl of the Jacobian of child number j
Index(j, sl) == [kind |-> "Index", child |-> j, slice |-> sl]

\* JacChildren without the test for a child on more than one domain
RECURSIVE JacChildren_NoSingleDomainCheck(_, _, _, _, _)
JacChildren_NoSingleDomainCheck(node, children_jacs, i, j, jacs) ==
    IF IsError(jacs) \/ j > Min(Len(children_jacs), Len(node.children_slices))
        THEN jacs
    ELSE IF node.children_slices[j] = <<>>
        THEN Raise("StopIteration", "next(iter(slices.values()))")
    ELSE IF i >= Len(node.children_slices[j][1].list)
        THEN Raise("IndexError", "list index out of range")
    ELSE JacChildren_NoSingleDomainCheck(node, children_jacs, i, j + 1,
             [jacs EXCEPT !.list =
                 Append(@, Index(children_jacs[j],
                                 node.children_slices[j][1].list[i + 1]))])

\* the inner loop of _concatenation_jac over zip(children_jacs, children_slices)
RECURSIVE JacChildren(_, _, _, _, _)
JacChildren(node, children_jacs, i, j, jacs) ==
    IF IsError(jacs) \/ j > Min(Len(children_jacs), Len(node.children_slices))
        THEN jacs
    ELSE IF Len(node.children_slices[j]) > 1
        THEN Raise("NotImplementedError",
                   "jacobian only implemented for when each child has a single domain")
    ELSE IF node.children_slices[j] = <<>>
        THEN Raise("StopIteration", "next(iter(slices.values()))")
    ELSE IF i >= Len(node.children_slices[j][1].list)
        THEN Raise("IndexError", "list index out of range")
    ELSE JacChildren(node, children_jacs, i, j + 1,
                     [jacs EXCEPT !.list =
                         Append(@, Index(children_jacs[j],
                                         node.children_slices[j][1].list[i + 1]))])

\* the outer loop "for i in range(self.secondary_dimensions_npts)"
RECURSIVE JacRepeats(_, _, _, _)
JacRepeats(node, children_jacs, i, jacs) ==
    IF IsError(jacs) \/ i >= node.secondary_dimensions_npts THEN jacs
    ELSE JacRepeats(node, children_jacs, i + 1,
                    JacChildren(node, children_jacs, i, 1, jacs))

\* pybamm.Matrix(entries): a constant matrix, kept sparse or dense
Matrix(sparse) ==
    [kind |-> "Matrix", name |-> <<"m">>, children |-> <<>>,
     domains |-> Domains(<<>>, <<>>, <<>>, <<>>), sparse |-> sparse]

\* issparse(child.evaluate_for_shape()): a Matrix as it is kept, a Jacobian and
\* the rows of a Jacobian sparse, every other symbol dense
IsSparse(x) ==
    IF x.kind = "Matrix" THEN x.sparse ELSE x.kind \in {"Jacobian", "Index"}

\* scipy.sparse.vstack and numpy.vstack
SparseVstack == "scipy.sparse.vstack"

DenseVstack == "numpy.vstack"

\* SparseStackInit that stacks sparsely only when every child is sparse
SparseStackInit_AllSparse(cs) ==
    IF \E i \in 1..Len(cs) : ~IsSymbol(cs[i])
        THEN Raise("AttributeError", "has no attribute 'evaluate_for_shape'")
    ELSE LET base == ConcatenationInit("SparseStack", cs, SparseStackName, FALSE) IN
         IF IsError(base) THEN base
         ELSE [kind |-> base.kind, name |-> base.name, children |-> base.children,
               domains |-> base.domains,
               concatenation_function |->
                   IF ~(\A i \in 1..Len(cs) : IsSparse(cs[i]))
                       THEN DenseVstack ELSE SparseVstack]

\* SparseStack(*children)
SparseStackInit(cs) ==
    IF \E i \in 1..Len(cs) : ~IsSymbol(cs[i])
        THEN Raise("AttributeError", "has no attribute 'evaluate_for_shape'")
    ELSE LET base == ConcatenationInit("SparseStack", cs, SparseStackName, FALSE) IN
         IF IsError(base) THEN base
         ELSE [kind |-> base.kind, name |-> base.name, children |-> base.children,
               domains |-> base.domains,
               concatenation_function |->
                   IF ~(\E i \in 1..Len(cs) : IsSparse(cs[i]))
                       THEN DenseVstack ELSE SparseVstack]

\* _concatenation_jac with the loops nested the other way round: child-major
_concatenation_jac_ChildMajor(node, children_jacs) ==
    LET n == Len(children_jacs)
        reps == node.secondary_dimensions_npts
    IN  IF \E j \in 1..n : Len(node.children_slices[j]) > 1
            THEN Raise("NotImplementedError",
                       "jacobian only implemented for when each child has a single domain")
        ELSE SparseStackInit(
                 [b \in 1..(n * reps) |->
                     Index(children_jacs[((b - 1) \div reps) + 1],
                           node.children_slices[((b - 1) \div reps) + 1][1]
                               .list[((b - 1) % reps) + 1])])

\* DomainConcatenation._concatenation_jac(children_jacs)
_concatenation_jac(node, children_jacs) ==
    LET jacs == JacRepeats(node, children_jacs, 0, [kind |-> "ok", list |-> <<>>]) IN
    IF IsError(jacs) THEN jacs ELSE SparseStackInit(jacs.list)

\* the Jacobian of child number j, as handed to _concatenation_jac
ChildJacobian(j) == [kind |-> "Jacobian", child |-> j]

\* Concatenation._concatenation_jac(children_jacs)
BaseConcatenationJac(node, children_jacs) == Raise("NotImplementedError", "")

\* NumpyConcatenation._concatenation_jac(children_jacs); a Scalar has not been
\* defined yet at this point, the record is pybamm.Scalar(0)
NumpyConcatenationJac(node, children_jacs) ==
    IF Len(node.children) = 0
        THEN [kind |-> "Scalar", name |-> <<"s">>, children |-> <<>>,
              domains |-> Domains(<<>>, <<>>, <<>>, <<>>), value |-> 0]
    ELSE SparseStackInit([j \in 1..Len(children_jacs) |-> ChildJacobian(children_jacs[j])])

\* node._concatenation_jac(children_jacs), by the class of the node
ConcatenationJac(node, children_jacs) ==
    CASE node.kind = "DomainConcatenation" -> _concatenation_jac(node, children_jacs)
      [] node.kind = "NumpyConcatenation" -> NumpyConcatenationJac(node, children_jacs)
      [] OTHER -> BaseConcatenationJac(node, children_jacs)

----------------------------------------------------------------------------
(* Names: a Python str is the sequence of its characters *)

NegativeParticleConcentration ==
    <<"N", "e", "g", "a", "t", "i", "v", "e", " ", "p", "a", "r", "t", "i", "c", "l", "e", " ", "c", "o", "n", "c", "e", "n", "t", "r", "a", "t", "i", "o", "n">>

PositiveParticleConcentration ==
    <<"P", "o", "s", "i", "t", "i", "v", "e", " ", "p", "a", "r", "t", "i", "c", "l", "e", " ", "c", "o", "n", "c", "e", "n", "t", "r", "a", "t", "i", "o", "n">>

Lower == <<"a", "b", "c", "d", "e", "f", "g", "h", "i", "j", "k", "l", "m",
           "n", "o", "p", "q", "r", "s", "t", "u", "v", "w", "x", "y", "z">>

Upper == <<"A", "B", "C", "D", "E", "F", "G", "H", "I", "J", "K", "L", "M",
           "N", "O", "P", "Q", "R", "S", "T", "U", "V", "W", "X", "Y", "Z">>

\* ch.capitalize() of a one-character string
Capitalize(ch) ==
    IF \E k \in 1..Len(Lower) : Lower[k] = ch
        THEN Upper[CHOOSE k \in 1..Len(Lower) : Lower[k] = ch]
        ELSE ch

\* s.lstrip()
RECURSIVE LStrip(_)
LStrip(s) == IF s # <<>> /\ Head(s) = " " THEN LStrip(Tail(s)) ELSE s

\* s.rstrip()
RECURSIVE RStrip(_)
RStrip(s) ==
    IF s # <<>> /\ Last(s) = " " THEN RStrip(SubSeq(s, 1, Len(s) - 1)) ELSE s

\* set(substrings(s)): every s[i : j + 1]
substrings(s) == UNION {{SubSeq(s, i, j) : j \in i..Len(s)} : i \in 1..Len(s)}

\* intersect(s1, s2): max(all_intersects, key=len) is the longest common
\* substring the iteration of the set meets first, any of the longest ones
intersect(s1, s2) ==
    LET all_intersects == substrings(s1) \cap substrings(s2)
        lens == {Len(x) : x \in all_intersects}
        longest == CHOOSE n \in lens : \A m \in lens : m <= n
    IN  IF all_intersects = {} THEN {<<>>}
        ELSE {RStrip(LStrip(x)) : x \in {y \in all_intersects : Len(y) = longest}}

\* "for child in children[2:]: name = intersect(name, child.name)" from the
\* i-th child on, for every name in names
RECURSIVE IntersectRest(_, _, _)
IntersectRest(names, cs, i) ==
    IF i > Len(cs) THEN names
    ELSE IntersectRest(UNION {intersect(n, cs[i].name) : n \in names}, cs, i + 1)

\* MergedName that leaves the first character as it is
MergedName_NoCapitalize(name) == IF Len(name) = 0 THEN NoName ELSE name

\* MergedName that capitalizes a name of one character too
MergedName_CapitalizeOne(name) ==
    IF Len(name) = 0 THEN NoName ELSE <<Capitalize(name[1])>> \o Tail(name)

\* the name ConcatenationVariable gives Concatenation.__init__: None when
\* empty, capitalized when longer than one character
MergedName(name) ==
    IF Len(name) = 0 THEN NoName
    ELSE IF Len(name) > 1 THEN <<Capitalize(name[1])>> \o Tail(name)
    ELSE name

\* print_name[:-1] if print_name.endswith("_")
StripUnderscore(print_name) ==
    IF print_name # <<>> /\ Last(print_name) = "_"
        THEN SubSeq(print_name, 1, Len(print_name) - 1)
        ELSE print_name

----------------------------------------------------------------------------
(* ConcatenationVariable *)

\* VariableAttributesError comparing the lower bounds only
VariableAttributesError_LowerBoundOnly(cs) ==
    IF Len(cs) = 0 THEN Null
    ELSE IF \E i \in 1..Len(cs) : cs[i].scale # cs[1].scale
        THEN Raise("ValueError", "Cannot concatenate symbols with different scales")
    ELSE IF \E i \in 1..Len(cs) : cs[i].reference # cs[1].reference
        THEN Raise("ValueError", "Cannot concatenate symbols with different references")
    ELSE IF \E i \in 1..Len(cs) : cs[i].bounds[1] # cs[1].bounds[1]
        THEN Raise("ValueError", "Cannot concatenate symbols with different bounds")
    ELSE Null

\* the attribute checks of ConcatenationVariable.__init__ on scale, reference
\* and bounds: the error raised, or Null
VariableAttributesError(cs) ==
    IF Len(cs) = 0 THEN Null
    ELSE IF \E i \in 1..Len(cs) : cs[i].scale # cs[1].scale
        THEN Raise("ValueError", "Cannot concatenate symbols with different scales")
    ELSE IF \E i \in 1..Len(cs) : cs[i].reference # cs[1].reference
        THEN Raise("ValueError", "Cannot concatenate symbols with different references")
    ELSE IF \E i \in 1..Len(cs) : cs[i].bounds # cs[1].bounds
        THEN Raise("ValueError", "Cannot concatenate symbols with different bounds")
    ELSE Null

\* ConcatenationVariable(*children) on Variables: the set of possible outcomes
\* (one per choice intersect may make among longest common substrings)
ConcatenationVariableInit(cs) ==
    IF Len(cs) < 2 THEN {Raise("IndexError", "tuple index out of range")}
    ELSE IF VariableAttributesError(cs) # Null THEN {VariableAttributesError(cs)}
    ELSE LET names == IntersectRest(intersect(cs[1].name, cs[2].name), cs, 3) IN
         {LET base == ConcatenationInit("ConcatenationVariable", cs, MergedName(n), TRUE)
          IN  IF IsError(base) THEN base
              ELSE [kind |-> base.kind, name |-> base.name, children |-> base.children,
                    domains |-> base.domains,
                    scale |-> cs[1].scale, reference |-> cs[1].reference,
                    bounds |-> cs[1].bounds,
                    print_name |-> StripUnderscore(pn)] :
          n \in names, pn \in names}

----------------------------------------------------------------------------
(* Leaves other than Symbol and Variable *)

\* pybamm.StateVector(*y_slices): rows y_slices of the state vector
StateVector(y_slices, domains) ==
    [kind |-> "StateVector", name |-> <<"y">>, children |-> <<>>,
     domains |-> domains, y_slices |-> y_slices]

\* StateVector.evaluation_array: the indicator of the rows read, as long as the
\* stop of the last slice (entry k stands for row k - 1)
EvaluationArray(sv) ==
    [k \in 1..Last(sv.y_slices).stop |->
        \E n \in 1..Len(sv.y_slices) :
            sv.y_slices[n].start < k /\ k <= sv.y_slices[n].stop]

\* pybamm.Scalar(value)
Scalar(value) ==
    [kind |-> "Scalar", name |-> <<"s">>, children |-> <<>>,
     domains |-> Domains(<<>>, <<>>, <<>>, <<>>), value |-> value]

\* pybamm.Vector([1])
Vector1 ==
    [kind |-> "Vector", name |-> <<"v">>, children |-> <<>>,
     domains |-> Domains(<<>>, <<>>, <<>>, <<>>), folded |-> Null]

\* child * pybamm.Vector([1])
TimesVector1(child) ==
    [kind |-> "Multiplication", name |-> <<"*">>, children |-> <<child, Vector1>>,
     domains |-> child.domains]

\* child.evaluates_to_number()
EvaluatesToNumber(x) == x.kind = "Scalar"

BroadcastKinds == {"PrimaryBroadcast", "FullBroadcast"}

\* isinstance(x, pybamm.Broadcast)
IsBroadcast(x) == x.kind \in BroadcastKinds

\* pybamm.PrimaryBroadcast(child, domain): child broadcast onto domain, the
\* domains of the child moving one level down
PrimaryBroadcast(child, domain) ==
    [kind |-> "PrimaryBroadcast", name |-> <<"b">>, children |-> <<child>>,
     domains |-> Domains(domain, child.domains.primary, child.domains.secondary,
                         child.domains.tertiary)]

\* pybamm.FullBroadcast(child, broadcast_domains=domains)
FullBroadcast(child, broadcast_domains) ==
    [kind |-> "FullBroadcast", name |-> <<"b">>, children |-> <<child>>,
     domains |-> broadcast_domains]

ConcatenationKinds ==
    {"Concatenation", "NumpyConcatenation", "DomainConcatenation", "SparseStack",
     "ConcatenationVariable"}

\* Symbol.is_constant(); for a concatenation, all(child.is_constant())
RECURSIVE IsConstant(_)
IsConstant(x) ==
    CASE x.kind \in {"Scalar", "Vector"} -> TRUE
      [] x.kind \in ConcatenationKinds \cup {"Multiplication"} ->
             \A i \in 1..Len(x.children) : IsConstant(x.children[i])
      [] OTHER -> FALSE

\* pybamm.simplify_if_constant(symbol): a constant symbol is replaced by the
\* array it evaluates to
simplify_if_constant(symbol) ==
    IF IsConstant(symbol)
        THEN [kind |-> "Vector", name |-> <<"v">>, children |-> <<>>,
              domains |-> symbol.domains, folded |-> symbol]
        ELSE symbol

----------------------------------------------------------------------------
(* NumpyConcatenation and the simplifying constructors *)

\* NumpyConcatenation(*children)
NumpyConcatenationInit(cs) ==
    IF \E i \in 1..Len(cs) : ~IsSymbol(cs[i])
        THEN Raise("AttributeError", "has no attribute 'evaluates_to_number'")
    ELSE ConcatenationInit("NumpyConcatenation",
                           [i \in 1..Len(cs) |->
                               IF EvaluatesToNumber(cs[i]) THEN TimesVector1(cs[i])
                               ELSE cs[i]],
                           NumpyConcatenationName, FALSE)

\* list(filter(lambda x: x is not None, children))
RECURSIVE FilterNone(_)
FilterNone(cs) ==
    IF cs = <<>> THEN <<>>
    ELSE IF Head(cs) = None THEN FilterNone(Tail(cs))
    ELSE <<Head(cs)>> \o FilterNone(Tail(cs))

\* the test of simplified_concatenation for broadcasts of one child
AllBroadcastsOfOneChild(cs) ==
    \A i \in 1..Len(cs) :
        IsBroadcast(cs[i]) /\ cs[i].children[1] = cs[1].children[1]

\* simplified_concatenation that keeps the children that are None
simplified_concatenation_KeepNone(cs) ==
    IF Len(cs) = 0 THEN {Raise("ValueError", "Cannot create empty concatenation")}
    ELSE IF Len(cs) = 1 THEN {cs[1]}
    ELSE IF \A i \in 1..Len(cs) : IsVariable(cs[i])
        THEN ConcatenationVariableInit(cs)
    ELSE LET concat == ConcatenationInit("Concatenation", cs, NoName, TRUE) IN
         IF IsError(concat) THEN {concat} ELSE {concat}

\* simplified_concatenation that validates a lone child as Concatenation does
simplified_concatenation_ValidateLone(cs) ==
    LET kept == FilterNone(cs) IN
    IF Len(kept) = 0 THEN {Raise("ValueError", "Cannot create empty concatenation")}
    ELSE IF Len(kept) = 1
        THEN (IF IsError(get_children_domains(kept)) THEN {get_children_domains(kept)}
              ELSE {kept[1]})
    ELSE IF \A i \in 1..Len(kept) : IsVariable(kept[i])
        THEN ConcatenationVariableInit(kept)
    ELSE LET concat == ConcatenationInit("Concatenation", kept, NoName, TRUE) IN
         IF IsError(concat) THEN {concat}
         ELSE IF AllBroadcastsOfOneChild(kept)
             THEN (IF kept[1].kind = "PrimaryBroadcast"
                       THEN {PrimaryBroadcast(kept[1].children[1], concat.domains.primary)}
                       ELSE {FullBroadcast(kept[1].children[1], concat.domains)})
         ELSE {concat}

\* simplified_concatenation that chooses the broadcast by the domains of the
\* concatenation, not by the class of the first child
simplified_concatenation_KindByDomains(cs) ==
    LET kept == FilterNone(cs) IN
    IF Len(kept) = 0 THEN {Raise("ValueError", "Cannot create empty concatenation")}
    ELSE IF Len(kept) = 1 THEN {kept[1]}
    ELSE IF \A i \in 1..Len(kept) : IsVariable(kept[i])
        THEN ConcatenationVariableInit(kept)
    ELSE LET concat == ConcatenationInit("Concatenation", kept, NoName, TRUE) IN
         IF IsError(concat) THEN {concat}
         ELSE IF AllBroadcastsOfOneChild(kept)
             THEN (IF concat.domains = Domains(concat.domains.primary, <<>>, <<>>, <<>>)
                       THEN {PrimaryBroadcast(kept[1].children[1], concat.domains.primary)}
                       ELSE {FullBroadcast(kept[1].children[1], concat.domains)})
         ELSE {concat}

\* simplified_concatenation(*children): the set of possible outcomes
simplified_concatenation(cs) ==
    LET kept == FilterNone(cs) IN
    IF Len(kept) = 0 THEN {Raise("ValueError", "Cannot create empty concatenation")}
    ELSE IF Len(kept) = 1 THEN {kept[1]}
    ELSE IF \A i \in 1..Len(kept) : IsVariable(kept[i])
        THEN ConcatenationVariableInit(kept)
    ELSE LET concat == ConcatenationInit("Concatenation", kept, NoName, TRUE) IN
         IF IsError(concat) THEN {concat}
         ELSE IF AllBroadcastsOfOneChild(kept)
             THEN (IF kept[1].kind = "PrimaryBroadcast"
                       THEN {PrimaryBroadcast(kept[1].children[1], concat.domains.primary)}
                       ELSE {FullBroadcast(kept[1].children[1], concat.domains)})
         ELSE {concat}

\* concatenation(*children)
concatenation(cs) == simplified_concatenation(cs)

\* the loop of simplified_numpy_concatenation that extracts the children of
\* the arguments that are NumpyConcatenations
RECURSIVE ExtractNumpyChildren(_)
ExtractNumpyChildren(cs) ==
    IF cs = <<>> THEN <<>>
    ELSE (IF Head(cs).kind = "NumpyConcatenation" THEN Head(cs).children
          ELSE <<Head(cs)>>)
         \o ExtractNumpyChildren(Tail(cs))

\* simplified_numpy_concatenation(*children)
simplified_numpy_concatenation(cs) ==
    LET node == NumpyConcatenationInit(ExtractNumpyChildren(cs)) IN
    IF IsError(node) THEN node ELSE simplify_if_constant(node)

\* numpy_concatenation(*children)
numpy_concatenation(cs) == simplified_numpy_concatenation(cs)

IsStateVector(x) == x.kind = "StateVector"

\* every len(child.evaluation_array) is at most longest_eval_array, so that
\* np.zeros gets no negative dimension
PaddingFits(cs) ==
    \A i \in 1..Len(cs) :
        Len(EvaluationArray(cs[i])) <= Len(EvaluationArray(Last(cs)))

\* sum(array for array in eval_arrays.values())[k], k counting from 0: the
\* dictionary holds one padded array per distinct child
EvalArraySum(cs, k) ==
    Cardinality({c \in Range(cs) :
                    k < Len(EvaluationArray(c)) /\ EvaluationArray(c)[k + 1]})

\* simplified_domain_concatenation(children, mesh, copy_this)
simplified_domain_concatenation(cs, mesh, copy_this) ==
    LET concat == DomainConcatenationInit(cs, mesh, copy_this) IN
    IF IsError(concat) THEN concat
    ELSE IF \A i \in 1..Len(cs) : IsStateVector(cs[i]) THEN
        LET first_start == cs[1].y_slices[1].start
            last_stop == Last(Last(cs).y_slices).stop
        IN  IF ~PaddingFits(cs)
                THEN Raise("ValueError", "negative dimensions are not allowed")
            ELSE IF \A k \in first_start..(last_stop - 1) : EvalArraySum(cs, k) = 1
                THEN StateVector(<<Slice(first_start, last_stop)>>, concat.domains)
            ELSE simplify_if_constant(concat)
    ELSE simplify_if_constant(concat)

\* domain_concatenation(children, mesh)
domain_concatenation(cs, mesh) == simplified_domain_concatenation(cs, mesh, Null)

\* create_copy that rebuilds a NumpyConcatenation by its constructor
create_copy_BareNumpy(node) ==
    CASE node.kind \in {"Concatenation", "ConcatenationVariable"} ->
             concatenation(node.children)
      [] node.kind = "NumpyConcatenation" -> {NumpyConcatenationInit(node.children)}
      [] node.kind = "DomainConcatenation" ->
             {simplified_domain_concatenation(node.children, node.full_mesh, node)}
      [] node.kind = "SparseStack" -> {SparseStackInit(node.children)}

\* node.create_copy() of a concatenation: the set of possible outcomes. The
\* copies of the children are structurally the children.
create_copy(node) ==
    CASE node.kind \in {"Concatenation", "ConcatenationVariable"} ->
             concatenation(node.children)
      [] node.kind = "NumpyConcatenation" -> {numpy_concatenation(node.children)}
      [] node.kind = "DomainConcatenation" ->
             {simplified_domain_concatenation(node.children, node.full_mesh, node)}
      [] node.kind = "SparseStack" -> {SparseStackInit(node.children)}

----------------------------------------------------------------------------
(* Argument lists and meshes of the domain-aware runs *)

AllDomainNames == PrimaryNames \cup {CurrentCollector}

\* every mesh with 1..MaxNpts points per primary domain
GridMeshes ==
    {m \in [AllDomainNames -> 1..(IF MaxNpts > MaxRepeat THEN MaxNpts ELSE MaxRepeat)] :
        /\ m[CurrentCollector] = MaxRepeat
        /\ \A d \in PrimaryNames : m[d] <= MaxNpts}

\* negative=5, separator=3, positive=4
ExampleMesh ==
    [d \in AllDomainNames |->
        CASE d = NegativeElectrode -> 5
          [] d = Separator -> 3
          [] d = PositiveElectrode -> 4
          [] OTHER -> MaxRepeat]

Meshes == GridMeshes \cup {ExampleMesh}

PrimaryChoices ==
    {<<>>, <<NegativeElectrode>>, <<Separator>>, <<PositiveElectrode>>,
     <<NegativeElectrode, Separator>>, <<Separator, PositiveElectrode>>}

SecondaryChoices == {<<>>, <<CurrentCollector>>}

DomainKids ==
    {Symbol(<<"a">>, p, s) : p \in PrimaryChoices, s \in SecondaryChoices} \cup {NotSymbol}

----------------------------------------------------------------------------
(* Operations of a run *)

Start(kids, meshes) ==
    /\ children \in SeqsUpTo(kids, MaxChildren)
    /\ full_mesh \in meshes
    /\ pc = "start"
    /\ op = <<>>
    /\ result = Null
    /\ out = Null

\* apply a constructor (or the validator) named name to the arguments
Build(name, r) ==
    /\ pc = "start"
    /\ pc' = "built"
    /\ op' = <<name>>
    /\ result' = r
    /\ UNCHANGED <<children, full_mesh, out>>

\* apply an operation named name to the node that was built
Follow(name, r) ==
    /\ pc = "built"
    /\ pc' = "done"
    /\ op' = Append(op, name)
    /\ out' = r
    /\ UNCHANGED <<children, full_mesh, result>>

\* self.get_children_domains(children)
GetChildrenDomains == Build("get_children_domains", get_children_domains(children))

\* pybamm.DomainConcatenation(children, full_mesh)
NewDomainConcatenation ==
    Build("DomainConcatenation", DomainConcatenationInit(children, full_mesh, Null))

\* node.evaluate(t, y, y_dot, inputs) of a DomainConcatenation
Evaluate ==
    /\ result.kind = "DomainConcatenation"
    /\ Follow("evaluate", _concatenation_evaluate(result, ChildrenEval(result)))

\* node._concatenation_jac(children_jacs), the Jacobian of child j named j
Jac ==
    /\ result.kind = "DomainConcatenation"
    /\ Follow("jac", _concatenation_jac(result, [j \in 1..Len(result.children) |-> j]))

InitDomain == Start(DomainKids, Meshes)

NextDomain == GetChildrenDomains \/ NewDomainConcatenation \/ Evaluate \/ Jac

SpecDomain == InitDomain /\ [][NextDomain]_vars

----------------------------------------------------------------------------
(* Runs over every constructor (SpecConstruct) *)

ConstructKids ==
    {Symbol(<<"a">>, p, <<>>) :
         p \in {<<NegativeElectrode>>, <<Separator>>, <<Separator, PositiveElectrode>>}}
    \cup {Variable(<<"a">>, p, <<>>, scale) :
              p \in {<<NegativeElectrode>>, <<Separator>>}, scale \in {1, 2}}
    \cup {NotSymbol, None}

\* pybamm.Concatenation(*children)
NewConcatenation ==
    Build("Concatenation", ConcatenationInit("Concatenation", children, NoName, TRUE))

\* pybamm.NumpyConcatenation(*children)
NewNumpyConcatenation == Build("NumpyConcatenation", NumpyConcatenationInit(children))

\* pybamm.SparseStack(*children)
NewSparseStack == Build("SparseStack", SparseStackInit(children))

\* pybamm.ConcatenationVariable(*children) on Variables
NewConcatenationVariable ==
    /\ \A i \in 1..Len(children) : IsVariable(children[i])
    /\ \E r \in ConcatenationVariableInit(children) : Build("ConcatenationVariable", r)

\* pybamm.concatenation(*children)
CallConcatenation == \E r \in concatenation(children) : Build("concatenation", r)

\* pybamm.numpy_concatenation(*children)
CallNumpyConcatenation == Build("numpy_concatenation", numpy_concatenation(children))

\* pybamm.domain_concatenation(children, full_mesh)
CallDomainConcatenation ==
    Build("domain_concatenation", domain_concatenation(children, full_mesh))

\* node._concatenation_jac(children_jacs) of any concatenation node built
JacOfBuilt ==
    /\ result.kind \in ConcatenationKinds
    /\ Follow("jac", ConcatenationJac(result, [j \in 1..Len(result.children) |-> j]))

InitConstruct == Start(ConstructKids, {ExampleMesh})

NextConstruct ==
    \/ NewConcatenation
    \/ NewNumpyConcatenation
    \/ NewDomainConcatenation
    \/ NewSparseStack
    \/ NewConcatenationVariable
    \/ CallConcatenation
    \/ CallNumpyConcatenation
    \/ CallDomainConcatenation
    \/ JacOfBuilt

SpecConstruct == InitConstruct /\ [][NextConstruct]_vars

----------------------------------------------------------------------------
(* Runs over named Variables (SpecNames) *)

\* Variables of five names: the two of the example, two short names that share
\* " pa" with them and single characters with each other, and one that shares
\* nothing with any of them
NameKids ==
    {Variable(NegativeParticleConcentration, <<NegativeElectrode>>, <<>>, 1),
     Variable(PositiveParticleConcentration, <<PositiveElectrode>>, <<>>, 1),
     Variable(PositiveParticleConcentration, <<NegativeElectrode>>, <<>>, 1),
     Variable(<<"x", " ", "p", "a">>, <<Separator>>, <<>>, 1),
     Variable(<<"a", "b", " ", "x">>, <<Separator>>, <<>>, 1),
     Variable(<<"a", "b", " ", "x">>, <<PositiveElectrode>>, <<>>, 1),
     Variable(<<"Q">>, <<PositiveElectrode>>, <<>>, 1)}

InitNames == Start(NameKids, {ExampleMesh})

NextNames == NewConcatenationVariable \/ CallConcatenation

SpecNames == InitNames /\ [][NextNames]_vars

----------------------------------------------------------------------------
(* Runs over StateVectors (SpecStateVector) *)

\* one slice [a, b) or two slices [a, b), [c, d) with a gap, within MaxRow
\* rows; and the slices [0,5), [5,8), [8,12)
StateVectorSlices ==
    {<<Slice(ab[1], ab[2])>> :
         ab \in {x \in (0..MaxRow) \X (0..MaxRow) : x[1] < x[2]}}
    \cup {<<Slice(q[1], q[2]), Slice(q[3], q[4])>> :
              q \in {x \in (0..MaxRow) \X (0..MaxRow) \X (0..MaxRow) \X (0..MaxRow) :
                        x[1] < x[2] /\ x[2] < x[3] /\ x[3] < x[4]}}
    \cup {<<Slice(0, 5)>>, <<Slice(5, 8)>>, <<Slice(8, 12)>>}

\* the domain of the i-th child: negative electrode, separator, positive
\* electrode, and round again
PositionDomain(i) ==
    <<NegativeElectrode, Separator, PositiveElectrode>>[((i - 1) % 3) + 1]

\* the i-th child: a StateVector reading the rows sl, or a plain Symbol
StateVectorKid(i, sl) ==
    IF sl = <<>> THEN Symbol(<<"a">>, <<PositionDomain(i)>>, <<>>)
    ELSE StateVector(sl, Domains(<<PositionDomain(i)>>, <<>>, <<>>, <<>>))

InitStateVector ==
    /\ children \in
           {[i \in 1..Len(sls) |-> StateVectorKid(i, sls[i])] :
                sls \in SeqsUpTo(StateVectorSlices \cup {<<>>}, MaxChildren)}
    /\ full_mesh = ExampleMesh
    /\ pc = "start"
    /\ op = <<>>
    /\ result = Null
    /\ out = Null

NextStateVector == CallDomainConcatenation

SpecStateVector == InitStateVector /\ [][NextStateVector]_vars

----------------------------------------------------------------------------
(* Runs that simplify again and copy (SpecSimplify) *)

\* NumpyConcatenation(a, b) and NumpyConcatenation(NumpyConcatenation(a, b), a)
NumpyPair ==
    NumpyConcatenationInit(<<Symbol(<<"a">>, <<NegativeElectrode>>, <<>>),
                             Symbol(<<"a">>, <<Separator>>, <<>>)>>)

NumpyNested ==
    NumpyConcatenationInit(<<NumpyPair, Symbol(<<"a">>, <<NegativeElectrode>>, <<>>)>>)

SimplifyKids ==
    {Symbol(<<"a">>, <<p>>, <<>>) : p \in {NegativeElectrode, Separator}}
    \cup {Variable(<<"a">>, <<p>>, <<>>, 1) : p \in {NegativeElectrode, Separator}}
    \cup {PrimaryBroadcast(Scalar(1), <<p>>) : p \in {NegativeElectrode, Separator}}
    \cup {StateVector(<<Slice(0, 1)>>, Domains(<<NegativeElectrode>>, <<>>, <<>>, <<>>)),
          StateVector(<<Slice(1, 2)>>, Domains(<<Separator>>, <<>>, <<>>, <<>>)),
          StateVector(<<Slice(0, 2)>>, Domains(<<PositiveElectrode>>, <<>>, <<>>, <<>>))}
    \cup {Scalar(1), NumpyPair, NumpyNested, None}

\* the kinds of concatenation node that the helper named name builds
HelperKinds(name) ==
    CASE name = "concatenation" -> {"Concatenation", "ConcatenationVariable"}
      [] name = "numpy_concatenation" -> {"NumpyConcatenation"}
      [] name = "domain_concatenation" -> {"DomainConcatenation"}
      [] OTHER -> {}

\* the helper has returned a concatenation node of its own kind
Simplified == pc = "built" /\ result.kind \in HelperKinds(op[1])

\* the helper that built the node, applied to the children of the node
Resimplify ==
    /\ Simplified
    /\ \E r \in (CASE op[1] = "concatenation" -> concatenation(result.children)
                   [] op[1] = "numpy_concatenation" ->
                          {numpy_concatenation(result.children)}
                   [] op[1] = "domain_concatenation" ->
                          {domain_concatenation(result.children, full_mesh)}) :
           Follow("resimplify", r)

\* node.create_copy()
CreateCopy ==
    /\ Simplified
    /\ \E r \in create_copy(result) : Follow("create_copy", r)

InitSimplify == Start(SimplifyKids, {ExampleMesh})

NextSimplify ==
    \/ CallConcatenation
    \/ CallNumpyConcatenation
    \/ CallDomainConcatenation
    \/ Resimplify
    \/ CreateCopy

SpecSimplify == InitSimplify /\ [][NextSimplify]_vars

----------------------------------------------------------------------------
(* Runs over auxiliary domains (SpecAuxiliary) *)

\* negative=1, separator=3, positive=2
AuxiliaryMesh ==
    [d \in AllDomainNames |->
        CASE d = NegativeElectrode -> 1
          [] d = Separator -> 3
          [] d = PositiveElectrode -> 2
          [] OTHER -> MaxRepeat]

\* the auxiliary levels a child may come with: none, one level, one level of
\* two names, two and three levels
AuxiliaryChoices ==
    {Domains(<<>>, <<>>, <<>>, <<>>),
     Domains(<<>>, <<CurrentCollector>>, <<>>, <<>>),
     Domains(<<>>, <<Separator>>, <<>>, <<>>),
     Domains(<<>>, <<CurrentCollector, NegativeElectrode>>, <<>>, <<>>),
     Domains(<<>>, <<>>, <<CurrentCollector>>, <<>>),
     Domains(<<>>, <<>>, <<NegativeElectrode>>, <<>>),
     Domains(<<>>, <<>>, <<>>, <<CurrentCollector>>),
     Domains(<<>>, <<>>, <<>>, <<NegativeElectrode>>),
     Domains(<<>>, <<CurrentCollector>>, <<CurrentCollector>>, <<>>),
     Domains(<<>>, <<CurrentCollector>>, <<NegativeElectrode>>, <<CurrentCollector>>)}

\* the i-th child: a Symbol on the i-th primary domain with auxiliary levels aux
AuxiliaryKid(i, aux) ==
    [kind |-> "Symbol", name |-> <<"a">>, children |-> <<>>,
     domains |-> [aux EXCEPT !.primary = <<PositionDomain(i)>>]]

InitAuxiliary ==
    /\ children \in
           {[i \in 1..Len(auxs) |-> AuxiliaryKid(i, auxs[i])] :
                auxs \in SeqsUpTo(AuxiliaryChoices, MaxChildren)}
    /\ full_mesh = AuxiliaryMesh
    /\ pc = "start"
    /\ op = <<>>
    /\ result = Null
    /\ out = Null

NextAuxiliary == GetChildrenDomains \/ NewDomainConcatenation

SpecAuxiliary == InitAuxiliary /\ [][NextAuxiliary]_vars

----------------------------------------------------------------------------
(* Runs over Variables of differing attributes (SpecVariables) *)

\* scale, reference and bounds of a Variable: the defaults, and each of scale,
\* reference, lower bound and upper bound changed in turn
AttributeChoices ==
    {[scale |-> 1, reference |-> 0, bounds |-> <<0, 1>>],
     [scale |-> 2, reference |-> 0, bounds |-> <<0, 1>>],
     [scale |-> 1, reference |-> 1, bounds |-> <<0, 1>>],
     [scale |-> 1, reference |-> 0, bounds |-> <<-1, 1>>],
     [scale |-> 1, reference |-> 0, bounds |-> <<0, 2>>]}

AttributeKids ==
    {[Variable(<<"a">>, <<p>>, <<>>, at.scale)
          EXCEPT !.reference = at.reference, !.bounds = at.bounds] :
         p \in PrimaryNames, at \in AttributeChoices}

InitVariables == Start(AttributeKids, {ExampleMesh})

NextVariables == NewConcatenationVariable \/ CallConcatenation

SpecVariables == InitVariables /\ [][NextVariables]_vars

----------------------------------------------------------------------------
(* Runs that copy the node a constructor built (SpecOperations) *)

\* the constructor that node._concatenation_new_copy(children) calls
NewCopyConstructor(node) ==
    CASE node.kind \in {"Concatenation", "ConcatenationVariable"} -> "concatenation"
      [] node.kind = "NumpyConcatenation" -> "numpy_concatenation"
      [] node.kind = "DomainConcatenation" -> "simplified_domain_concatenation"
      [] node.kind = "SparseStack" -> "SparseStack"

\* node.create_copy() of the concatenation node built; the constructor called
\* is noted after the operation
CopyOfBuilt ==
    /\ pc = "built"
    /\ result.kind \in ConcatenationKinds
    /\ pc' = "done"
    /\ op' = op \o <<"create_copy", NewCopyConstructor(result)>>
    /\ out' \in create_copy(result)
    /\ UNCHANGED <<children, full_mesh, result>>

\* child.diff(variable): a symbol on the domains of the child
ChildDiff(child) ==
    [kind |-> "Symbol", name |-> <<"d">>, children |-> <<>>, domains |-> child.domains]

\* node._diff(variable): the set of possible outcomes. self.__class__ is
\* called with the derivatives as positional arguments, which
\* DomainConcatenation.__init__ takes as children, full_mesh and copy_this: a
\* derivative is then read as the list of children and another as the mesh,
\* and the call ends in an error of one class or another
_diff(node) ==
    LET children_diffs == [i \in 1..Len(node.children) |-> ChildDiff(node.children[i])] IN
    IF Len(children_diffs) = 1 THEN {children_diffs[1]}
    ELSE CASE node.kind = "Concatenation" ->
                  {ConcatenationInit("Concatenation", children_diffs, NoName, TRUE)}
           [] node.kind = "NumpyConcatenation" -> {NumpyConcatenationInit(children_diffs)}
           [] node.kind = "SparseStack" -> {SparseStackInit(children_diffs)}
           [] node.kind = "DomainConcatenation" ->
                  {Raise(e, "DomainConcatenation.__init__(*children_diffs)") :
                       e \in {"TypeError", "AttributeError"}}

\* node._diff(variable) of the node built; the derivative of a Variable, and
\* with it that of a ConcatenationVariable, is left out
DiffOfBuilt ==
    /\ result.kind \in ConcatenationKinds \ {"ConcatenationVariable"}
    /\ \E r \in _diff(result) : Follow("diff", r)

\* pybamm.DomainConcatenation(new_children, mesh, copy_this=node) on the
\* DomainConcatenation built: with its children, without the first of them or
\* with one child on another domain, and with its mesh or another one
CopyConstruct ==
    /\ result.kind = "DomainConcatenation"
    /\ \E cs \in {result.children, Tail(result.children),
                   <<Symbol(<<"a">>, <<PositiveElectrode>>, <<>>)>>},
          mesh \in {full_mesh, AuxiliaryMesh} :
           Follow("copy_this", DomainConcatenationInit(cs, mesh, result))

OperationKids ==
    {Symbol(<<"a">>, <<p>>, s) : p \in {NegativeElectrode, Separator}, s \in SecondaryChoices}
    \cup {Variable(<<"a">>, <<p>>, <<>>, 1) : p \in {NegativeElectrode, Separator}}
    \cup {Scalar(1), NumpyPair}

InitOperations == Start(OperationKids, {ExampleMesh})

NextOperations ==
    \/ NewConcatenation
    \/ NewNumpyConcatenation
    \/ NewDomainConcatenation
    \/ NewSparseStack
    \/ NewConcatenationVariable
    \/ CopyOfBuilt
    \/ DiffOfBuilt
    \/ CopyConstruct

SpecOperations == InitOperations /\ [][NextOperations]_vars

----------------------------------------------------------------------------
(* Runs over matrices and the Jacobian of what is built (SpecJacobian) *)

JacobianKids ==
    {Matrix(TRUE), Matrix(FALSE), Scalar(1),
     Symbol(<<"a">>, <<NegativeElectrode>>, <<>>)}

InitJacobian == Start(JacobianKids, {ExampleMesh})

NextJacobian == NewNumpyConcatenation \/ NewSparseStack \/ JacOfBuilt

SpecJacobian == InitJacobian /\ [][NextJacobian]_vars

----------------------------------------------------------------------------
(* Runs of the concatenation helper over broadcasts (SpecBroadcast) *)

\* broadcasts of the number 1, of the number 2 and of a symbol on the current
\* collector, of either class, with and without auxiliary domains
BroadcastKids ==
    {PrimaryBroadcast(v, <<p>>) :
         v \in {Scalar(1), Symbol(<<"x">>, <<CurrentCollector>>, <<>>)},
         p \in {NegativeElectrode, Separator}}
    \cup {FullBroadcast(Scalar(1), Domains(<<p>>, s, <<>>, <<>>)) :
              p \in {NegativeElectrode, Separator}, s \in SecondaryChoices}
    \cup {PrimaryBroadcast(Scalar(2), <<PositiveElectrode>>),
          Symbol(<<"a">>, <<PositiveElectrode>>, <<>>)}

InitBroadcast == Start(BroadcastKids, {ExampleMesh})

NextBroadcast == CallConcatenation

SpecBroadcast == InitBroadcast /\ [][NextBroadcast]_vars

----------------------------------------------------------------------------
(* Runs that evaluate what domain_concatenation returns (SpecCollapse) *)

\* a mesh with one point per primary domain
CollapseMesh == [d \in AllDomainNames |-> IF d = CurrentCollector THEN MaxRepeat ELSE 1]

\* the contiguous ranges of a set of rows, in increasing order
RECURSIVE RowSlices(_)
RowSlices(rows) ==
    IF rows = {} THEN <<>>
    ELSE LET a == CHOOSE r \in rows : \A q \in rows : r <= q
             b == CHOOSE e \in (a + 1)..(a + Cardinality(rows)) :
                      /\ e \notin rows
                      /\ \A q \in a..(e - 1) : q \in rows
         IN  <<Slice(a, b)>> \o RowSlices(rows \ (a..(b - 1)))

\* n StateVectors on the first n primary domains, with the auxiliary domain
\* secondary, that share the rows from first on among them: each child reads
\* as many rows as its domain has points in the mesh
CollapseChildren(n, secondary, first) ==
    LET repeats == IF secondary = <<>> THEN 1 ELSE CollapseMesh[CurrentCollector]
        total == n * repeats
    IN  {[i \in 1..n |->
             StateVector(RowSlices({first + r : r \in {q \in 0..(total - 1) : f[q] = i}}),
                         Domains(<<PositionDomain(i)>>, secondary, <<>>, <<>>))] :
         f \in {g \in [0..(total - 1) -> 1..n] :
                   \A i \in 1..n :
                       Cardinality({q \in 0..(total - 1) : g[q] = i}) = repeats}}

\* StateVector.evaluate(t, y, y_dot, inputs): the rows y_slices of y, row k of
\* y written <<"y", k>>
StateVectorEvaluate(sv) ==
    LET RECURSIVE Rows(_)
        Rows(n) ==
            IF n > Len(sv.y_slices) THEN <<>>
            ELSE [k \in 1..(sv.y_slices[n].stop - sv.y_slices[n].start) |->
                     <<"y", sv.y_slices[n].start + k - 1>>] \o Rows(n + 1)
    IN  Rows(1)

\* node.evaluate(t, y, y_dot, inputs) of a StateVector or a DomainConcatenation
\* of StateVectors
EvaluateNode(node) ==
    IF IsStateVector(node)
        THEN [kind |-> "vector", vector |-> StateVectorEvaluate(node),
              writes |-> [k \in 1..Len(StateVectorEvaluate(node)) |-> 1]]
    ELSE _concatenation_evaluate(node,
             [c \in 1..Len(node.children) |-> StateVectorEvaluate(node.children[c])])

EvaluateBuilt ==
    /\ result.kind \in {"StateVector", "DomainConcatenation"}
    /\ Follow("evaluate", EvaluateNode(result))

InitCollapse ==
    /\ children \in
           UNION {CollapseChildren(n, secondary, first) :
                      n \in 0..Min(MaxChildren, Cardinality(PrimaryNames)),
                      secondary \in SecondaryChoices,
                      first \in 0..1}
    /\ full_mesh = CollapseMesh
    /\ pc = "start"
    /\ op = <<>>
    /\ result = Null
    /\ out = Null

NextCollapse == CallDomainConcatenation \/ EvaluateBuilt

SpecCollapse == InitCollapse /\ [][NextCollapse]_vars

----------------------------------------------------------------------------
(* Properties of the domain-aware runs (SpecDomain) *)

BuiltDomainConcatenation == pc # "start" /\ result.kind = "DomainConcatenation"

Validated == pc # "start" /\ op[1] = "get_children_domains"

\* domain(C1) + domain(C2) + ... + domain(Cn)
RECURSIVE Flatten(_)
Flatten(cs) == IF cs = <<>> THEN <<>> ELSE Head(cs).domains.primary \o Flatten(Tail(cs))

AllSymbols(cs) == \A i \in 1..Len(cs) : IsSymbol(cs[i])

PairwiseDisjoint(cs) ==
    \A i, j \in 1..Len(cs) :
        i # j => Range(cs[i].domains.primary) \cap Range(cs[j].domains.primary) = {}

DisjointNonEmpty(cs) ==
    /\ AllSymbols(cs)
    /\ \A i \in 1..Len(cs) : cs[i].domains.primary # <<>>
    /\ PairwiseDisjoint(cs)

\* the k-th range (k from 1) met when walking the repeats and, inside each
\* repeat, the primary domain names of the node in order
WalkRange(node, k) ==
    LET n == Len(node.domains.primary) IN
    Lookup(node.slices, node.domains.primary[((k - 1) % n) + 1])[((k - 1) \div n) + 1]

WalkDomain(node, k) ==
    node.domains.primary[((k - 1) % Len(node.domains.primary)) + 1]

(* C1: the composite slices of a DomainConcatenation built on the non-copy
   path lay out [0, total_size) exactly: there is one table entry per primary
   domain name, each with secondary_repeat_count ranges; walking the repeats
   and inside each repeat the domain names in order, the first range starts at
   0, every range starts where the previous one stops and has length
   mesh[d].npts, and the last one stops at total_size. *)
C1_SlicesPartition ==
    BuiltDomainConcatenation =>
        LET n == Len(result.domains.primary)
            reps == result.secondary_dimensions_npts
        IN  /\ DisjointNonEmpty(children)
            /\ n >= 1 /\ reps >= 1
            /\ {result.slices[k].dom : k \in 1..Len(result.slices)}
                   = Range(result.domains.primary)
            /\ Len(result.slices) = n
            /\ \A d \in 1..n : Len(Lookup(result.slices, result.domains.primary[d])) = reps
            /\ WalkRange(result, 1).start = 0
            /\ \A k \in 1..(n * reps) :
                   /\ WalkRange(result, k).stop - WalkRange(result, k).start
                          = full_mesh[WalkDomain(result, k)]
                   /\ k > 1 => WalkRange(result, k).start = WalkRange(result, k - 1).stop
            /\ WalkRange(result, n * reps).stop = result.size

\* a node over three domain names in two children, laid out twice
C1_Witness ==
    /\ BuiltDomainConcatenation
    /\ Len(children) = 2
    /\ Len(result.domains.primary) = 3
    /\ result.secondary_dimensions_npts = 2
    /\ result.size > 6

ExampleChildren ==
    <<Symbol(<<"a">>, <<NegativeElectrode>>, <<>>), Symbol(<<"a">>, <<Separator>>, <<>>),
      Symbol(<<"a">>, <<PositiveElectrode>>, <<>>)>>

Evaluated == pc = "done" /\ op = <<"DomainConcatenation", "evaluate">>

(* C2: evaluating a DomainConcatenation returns a vector of length total_size
   in which every index has been written exactly once and, for every child c,
   every domain d of c and every repeat i, the entries at composite_slices[d][i]
   are the entries of c's result at child_slices[c][d][i]; on negative=5,
   separator=3, positive=4 points without auxiliary domain total_size is 12 and
   the slices are [0,5), [5,8), [8,12). *)
C2_EvaluatePlacesChildren ==
    Evaluated =>
        /\ out.kind = "vector"
        /\ Len(out.vector) = result.size
        /\ \A k \in 1..result.size : out.writes[k] = 1 /\ out.vector[k] # Unwritten
        /\ \A c \in 1..Len(result.children) :
               \A e \in 1..Len(result.children_slices[c]) :
                   LET entry == result.children_slices[c][e]
                       target == Lookup(result.slices, entry.dom)
                   IN  /\ Len(target) = Len(entry.list)
                       /\ \A i \in 1..Len(entry.list) :
                              /\ target[i].stop - target[i].start
                                     = entry.list[i].stop - entry.list[i].start
                              /\ \A x \in 1..(entry.list[i].stop - entry.list[i].start) :
                                     out.vector[target[i].start + x]
                                         = <<c, entry.list[i].start + x - 1>>
        /\ (children = ExampleChildren /\ full_mesh = ExampleMesh) =>
               /\ result.size = 12
               /\ result.slices =
                      <<[dom |-> NegativeElectrode, list |-> <<Slice(0, 5)>>],
                        [dom |-> Separator, list |-> <<Slice(5, 8)>>],
                        [dom |-> PositiveElectrode, list |-> <<Slice(8, 12)>>]>>

\* the example of the claim has been evaluated
C2_Witness == Evaluated /\ children = ExampleChildren /\ full_mesh = ExampleMesh

\* a child over two domains laid out twice has been evaluated
C2_WitnessRepeats ==
    /\ Evaluated
    /\ result.secondary_dimensions_npts = 2
    /\ \E c \in 1..Len(children) : Len(children[c].domains.primary) = 2

(* C3: for children whose primary domains are non-empty and pairwise disjoint,
   get_children_domains raises nothing but the auxiliary-domain DomainError,
   and the primary domain it returns is domain(C1) + ... + domain(Cn). *)
C3_PrimaryIsConcatenation ==
    (Validated /\ children # <<>> /\ DisjointNonEmpty(children)) =>
        \/ /\ result.kind = "ok"
           /\ result.domains.primary = Flatten(children)
        \/ /\ Raised(result, "DomainError")
           /\ result.msg = "children must have same or empty auxiliary domains"

\* three children, the second over two names, have been combined
C3_Witness ==
    /\ Validated
    /\ result.kind = "ok"
    /\ Len(children) = 2
    /\ Len(children[2].domains.primary) = 2
    /\ Len(result.domains.primary) = 3

JacTaken == pc = "done" /\ op = <<"DomainConcatenation", "jac">>

SingleDomainChildren(node) ==
    \A j \in 1..Len(node.children) : Len(node.children[j].domains.primary) = 1

(* C8: for a DomainConcatenation whose children each occupy one domain,
   _concatenation_jac returns a SparseStack of secondary_repeat_count * n
   blocks, block number i*n + j (both from 0) being the rows of child j's
   Jacobian at child j's i-th own slice. *)
C8_JacRepeatChildOrder ==
    (JacTaken /\ SingleDomainChildren(result)) =>
        LET n == Len(result.children)
            reps == result.secondary_dimensions_npts
        IN  /\ out.kind = "SparseStack"
            /\ Len(out.children) = reps * n
            /\ \A i \in 0..(reps - 1) : \A j \in 0..(n - 1) :
                   out.children[i * n + j + 1] =
                       Index(j + 1,
                             Lookup(result.children_slices[j + 1],
                                    result.children[j + 1].domains.primary[1])[i + 1])

\* two children, repeat count 2: four blocks (r0,c0), (r0,c1), (r1,c0), (r1,c1)
C8_Witness ==
    /\ JacTaken
    /\ SingleDomainChildren(result)
    /\ Len(result.children) = 2
    /\ result.secondary_dimensions_npts = 2
    /\ out.kind = "SparseStack"
    /\ Len(out.children) = 4
    /\ <<out.children[1].child, out.children[2].child,
         out.children[3].child, out.children[4].child>> = <<1, 2, 1, 2>>
    /\ out.children[1].slice # out.children[3].slice

\* some child is a Symbol of empty primary domain and every child before the
\* first such child is a Symbol
EmptyDomainChild(cs) ==
    \E i \in 1..Len(cs) :
        /\ IsSymbol(cs[i]) /\ cs[i].domains.primary = <<>>
        /\ \A j \in 1..(i - 1) : IsSymbol(cs[j])

(* C10: get_children_domains raises DomainError whenever a child has an empty
   primary domain, at whatever position and whatever the domains of the other
   children. *)
C10_EmptyDomainRejected ==
    (Validated /\ EmptyDomainChild(children)) => Raised(result, "DomainError")

\* the empty-domain child comes last, after children of disjoint domains
C10_Witness ==
    /\ Validated
    /\ Len(children) = 3
    /\ DisjointNonEmpty(SubSeq(children, 1, 2))
    /\ IsSymbol(children[3])
    /\ children[3].domains.primary = <<>>
    /\ Raised(result, "DomainError")
    /\ result.msg = "Cannot concatenate child with empty domain"

----------------------------------------------------------------------------
(* Properties of the runs over every constructor (SpecConstruct) *)

\* the constructions that check the domains of the children
DomainChecked ==
    {"Concatenation", "DomainConcatenation", "ConcatenationVariable", "concatenation",
     "domain_concatenation"}

\* the arguments that are not None
Given(cs) == {i \in 1..Len(cs) : cs[i] # None}

\* two of the children (None aside) share a primary-domain name, all being Symbols
SharedDomain(cs) ==
    /\ \A i \in Given(cs) : IsSymbol(cs[i])
    /\ \E i, j \in Given(cs) :
           /\ i # j
           /\ Range(cs[i].domains.primary) \cap Range(cs[j].domains.primary) # {}

AllVariables(cs) == \A i \in Given(cs) : IsVariable(cs[i])

\* the Variables among the children disagree on scale, reference or bounds
AttributesDiffer(cs) ==
    \E i, j \in Given(cs) :
        \/ cs[i].scale # cs[j].scale
        \/ cs[i].reference # cs[j].reference
        \/ cs[i].bounds # cs[j].bounds

\* a constructor of DomainChecked has been applied to children that share a name
OverlapConstructed ==
    /\ pc # "start"
    /\ op[1] \in DomainChecked
    /\ op[1] \notin {"concatenation"} => None \notin Range(children)
    /\ SharedDomain(children)

(* C4 as stated: a concatenation built from children of which two share a
   primary-domain name always fails with DomainError and no other error. *)
C4_AlwaysDomainError == OverlapConstructed => Raised(result, "DomainError")

(* C4, amended: a domain-checked construction from Symbol children of which two
   share a primary-domain name always fails; the error is DomainError, except
   that the base Concatenation given only Variables raises TypeError first and
   ConcatenationVariable (directly or through the concatenation helper) given
   Variables that disagree on scale, reference or bounds raises ValueError first. *)
C4_OverlapRejected ==
    OverlapConstructed =>
        /\ IsError(result)
        /\ result.error =
               (CASE op[1] = "Concatenation" /\ AllVariables(children) -> "TypeError"
                  [] /\ op[1] \in {"ConcatenationVariable", "concatenation"}
                     /\ AllVariables(children)
                     /\ AttributesDiffer(children) -> "ValueError"
                  [] OTHER -> "DomainError")

\* two Variables of one scale on the same domain are refused for their domains
C4_Witness ==
    /\ OverlapConstructed
    /\ op[1] = "ConcatenationVariable"
    /\ Len(children) = 2
    /\ ~AttributesDiffer(children)
    /\ Raised(result, "DomainError")
    /\ result.msg = "domain of children must be disjoint"

\* a construction named by the claim has been applied to no children: a
\* constructor to an empty list, the helper to arguments that are all None
EmptyConstructed ==
    /\ pc # "start"
    /\ op[1] # "get_children_domains"
    /\ IF op[1] = "concatenation" THEN \A i \in 1..Len(children) : children[i] = None
       ELSE children = <<>>

EmptyConcatenationError == Raise("ValueError", "Cannot create empty concatenation")

(* C6 as stated: every way of building a concatenation of zero children ends
   in ValueError("Cannot create empty concatenation"). *)
C6_EveryEmptyConstructionFails == EmptyConstructed => result = EmptyConcatenationError

(* C6, amended: the concatenation helper given no argument, or only None
   arguments, fails with ValueError("Cannot create empty concatenation"). The
   constructors given no children do otherwise: the base Concatenation raises
   TypeError, DomainConcatenation and ConcatenationVariable (and
   domain_concatenation) raise IndexError, and NumpyConcatenation and
   SparseStack return a node without children. *)
C6_EmptyHelperFails ==
    EmptyConstructed =>
        CASE op[1] = "concatenation" -> result = EmptyConcatenationError
          [] op[1] = "Concatenation" -> Raised(result, "TypeError")
          [] op[1] \in {"DomainConcatenation", "ConcatenationVariable",
                        "domain_concatenation"} -> Raised(result, "IndexError")
          [] op[1] \in {"NumpyConcatenation", "SparseStack"} ->
                 result.kind = op[1] /\ result.children = <<>>
          [] OTHER -> TRUE

\* the helper has been given three None arguments
C6_Witness ==
    /\ EmptyConstructed
    /\ op[1] = "concatenation"
    /\ Len(children) = 3
    /\ result = EmptyConcatenationError

----------------------------------------------------------------------------
(* Properties of the runs over named Variables (SpecNames) *)

ParticleConcentration ==
    <<"P", "a", "r", "t", "i", "c", "l", "e", " ", "c", "o", "n", "c", "e", "n", "t", "r", "a", "t", "i", "o", "n">>

TiveParticleConcentration ==
    <<"T", "i", "v", "e", " ", "p", "a", "r", "t", "i", "c", "l", "e", " ", "c", "o", "n", "c", "e", "n", "t", "r", "a", "t", "i", "o", "n">>

\* the two Variables of the example, on different domains, have been joined
ParticleNamesJoined ==
    /\ pc # "start"
    /\ Len(children) = 2
    /\ children[1].name = NegativeParticleConcentration
    /\ children[2].name = PositiveParticleConcentration
    /\ children[1].domains.primary # children[2].domains.primary

(* C7 as stated: joining Variables named "Negative particle concentration" and
   "Positive particle concentration" gives a ConcatenationVariable named
   "Particle concentration". *)
C7_NameIsParticleConcentration ==
    ParticleNamesJoined =>
        result.kind = "ConcatenationVariable" /\ result.name = ParticleConcentration

(* C7, amended: joining Variables named "Negative particle concentration" and
   "Positive particle concentration" gives a ConcatenationVariable named
   "Tive particle concentration": the longest common contiguous substring of
   the two names is "tive particle concentration", which is trimmed and then
   capitalized. *)
C7_NameIsLongestCommonSubstring ==
    ParticleNamesJoined =>
        /\ result.kind = "ConcatenationVariable"
        /\ result.name = TiveParticleConcentration
        /\ intersect(children[1].name, children[2].name)
               = {<<"t">> \o Tail(TiveParticleConcentration)}

\* the helper has joined the two Variables of the example
C7_Witness ==
    /\ ParticleNamesJoined
    /\ op = <<"concatenation">>
    /\ result.kind = "ConcatenationVariable"
    /\ result.children = children

----------------------------------------------------------------------------
(* Properties of the runs over StateVectors (SpecStateVector) *)

\* domain_concatenation has been applied to children on disjoint domains
DomainConcatenationCalled ==
    /\ pc # "start"
    /\ op[1] = "domain_concatenation"
    /\ children # <<>>
    /\ DisjointNonEmpty(children)

AllStateVectors(cs) == \A i \in 1..Len(cs) : IsStateVector(cs[i])

FirstStart(cs) == cs[1].y_slices[1].start

LastStop(cs) == Last(Last(cs).y_slices).stop

\* the sum of the children's indicator arrays at row k
IndicatorSum(cs, k) ==
    Cardinality({i \in 1..Len(cs) :
                    \E n \in 1..Len(cs[i].y_slices) :
                        cs[i].y_slices[n].start <= k /\ k < cs[i].y_slices[n].stop})

\* the indicator arrays sum to 1 at every row of [first start, last stop)
SumsToOne(cs) ==
    \A k \in FirstStart(cs)..(LastStop(cs) - 1) : IndicatorSum(cs, k) = 1

Collapsed(cs, r) ==
    /\ r.kind = "StateVector"
    /\ r.y_slices = <<Slice(FirstStart(cs), LastStop(cs))>>

(* C5: simplified_domain_concatenation returns a single StateVector over
   [first child's first start, last child's last stop) exactly when every child
   is a StateVector and the indicator arrays sum to 1 at every row of that
   range, and the DomainConcatenation otherwise; StateVectors over [0,5), [5,8),
   [8,12) collapse to one over [0,12). (Stated for a range that is not empty.) *)
C5_CollapseIffSumsToOne ==
    DomainConcatenationCalled =>
        IF ~AllStateVectors(children) THEN result.kind = "DomainConcatenation"
        ELSE FirstStart(children) < LastStop(children) =>
                 IF SumsToOne(children) THEN Collapsed(children, result)
                 ELSE result.kind = "DomainConcatenation"

\* the arrays of the children are no longer than that of the last child
LastIsLongest(cs) == \A i \in 1..Len(cs) : LastStop(<<cs[i]>>) <= LastStop(cs)

(* The statement of C5 where no evaluation array is longer than the last
   child's; where one is, np.zeros is given a negative dimension. *)
C5_HoldsWhenLastIsLongest ==
    DomainConcatenationCalled =>
        IF ~AllStateVectors(children) THEN result.kind = "DomainConcatenation"
        ELSE IF ~LastIsLongest(children) THEN Raised(result, "ValueError")
        ELSE IF SumsToOne(children)
            THEN Collapsed(children, result) /\ result.domains.primary = Flatten(children)
        ELSE result.kind = "DomainConcatenation"

\* the example of the claim collapses to one StateVector over [0, 12)
C5_ExampleCollapses ==
    /\ DomainConcatenationCalled
    /\ Len(children) = 3
    /\ AllStateVectors(children)
    /\ <<children[1].y_slices, children[2].y_slices, children[3].y_slices>>
           = << <<Slice(0, 5)>>, <<Slice(5, 8)>>, <<Slice(8, 12)>> >>
    /\ result.kind = "StateVector"
    /\ result.y_slices = <<Slice(0, 12)>>

----------------------------------------------------------------------------
(* Properties of the runs that simplify again and copy (SpecSimplify) *)

\* same kind, same children in the same order, same domains
StructurallyEqual(a, b) ==
    /\ ~IsError(a)
    /\ ~IsError(b)
    /\ a.kind = b.kind
    /\ a.children = b.children
    /\ a.domains = b.domains

\* a concatenation node returned by a helper has been simplified again or copied
SimplifiedAgain == pc = "done" /\ op[2] \in {"resimplify", "create_copy"}

(* C9: simplification is idempotent: a simplifying constructor applied to the
   children of a concatenation node it returned, and create_copy of that node,
   return a node structurally equal to it (same kind, same children in the same
   order, same domains). *)
C9_SimplificationIdempotent == SimplifiedAgain => StructurallyEqual(out, result)

\* a NumpyConcatenation one of whose children is a NumpyConcatenation
HasNumpyChild(node) ==
    /\ node.kind = "NumpyConcatenation"
    /\ \E i \in 1..Len(node.children) : node.children[i].kind = "NumpyConcatenation"

(* The statement of C9 for every node but a NumpyConcatenation that still has
   a NumpyConcatenation among its children, which is flattened one level more
   each time. *)
C9_HoldsWithoutNumpyChild ==
    (SimplifiedAgain /\ ~HasNumpyChild(result)) => StructurallyEqual(out, result)

\* the copy of a DomainConcatenation equals the node it comes from
C9_CopyEqual ==
    /\ SimplifiedAgain
    /\ op = <<"domain_concatenation", "create_copy">>
    /\ result.kind = "DomainConcatenation"
    /\ out = result

\* simplifying again, or copying, has extracted the children of a nested
\* NumpyConcatenation: the node has one child more than the node it comes from
C9_NumpyChildFlattened ==
    /\ SimplifiedAgain
    /\ HasNumpyChild(result)
    /\ Len(out.children) = Len(result.children) + 1

----------------------------------------------------------------------------
(* Properties of the runs over auxiliary domains (SpecAuxiliary) *)

\* the domains of Symbol children have been validated, by get_children_domains
\* or inside the constructor of DomainConcatenation
AuxiliaryValidated ==
    /\ pc # "start"
    /\ op[1] \in {"get_children_domains", "DomainConcatenation"}
    /\ children # <<>>
    /\ AllSymbols(children)

\* children i and j both have level non-empty, and different
LevelsDiffer(cs, level, i, j) ==
    /\ cs[i].domains[level] # <<>>
    /\ cs[j].domains[level] # <<>>
    /\ cs[i].domains[level] # cs[j].domains[level]

\* some auxiliary level is non-empty in one child and non-empty and different
\* in another
AuxiliaryConflict(cs) ==
    \E l \in 1..Len(AuxLevels) : \E i, j \in 1..Len(cs) :
        LevelsDiffer(cs, AuxLevels[l], i, j)

(* C11: get_children_domains fails with DomainError whenever some auxiliary
   level (secondary, tertiary, quaternary) is non-empty in one child and
   non-empty and different in another, for every pair of children, also pairs
   without child 0 and also when the level of child 0 is empty. *)
C11_AuxiliaryConflictRejected ==
    (AuxiliaryValidated /\ AuxiliaryConflict(children)) => Raised(result, "DomainError")

\* the conflict is at a level that child 0 has
ConflictWithFirst(cs) ==
    \E l \in 1..Len(AuxLevels) : \E i, j \in 1..Len(cs) :
        /\ cs[1].domains[AuxLevels[l]] # <<>>
        /\ LevelsDiffer(cs, AuxLevels[l], i, j)

(* The statement of C11 for the levels that child 0 has; a conflict among the
   other children at a level that is empty in child 0 goes unnoticed. *)
C11_HoldsAtLevelsOfFirst ==
    (AuxiliaryValidated /\ ConflictWithFirst(children)) => Raised(result, "DomainError")

\* children 1 and 2 are in conflict at a level child 0 lacks, and pass
C11_ConflictAccepted ==
    /\ AuxiliaryValidated
    /\ PairwiseDisjoint(children)
    /\ AuxiliaryConflict(children)
    /\ ~ConflictWithFirst(children)
    /\ ~IsError(result)

\* the repeat count derived from the auxiliary domains of one child
ChildRepeats(mesh, child) == _get_auxiliary_domain_repeats(mesh, child.domains)

(* C12: while a DomainConcatenation is built, the slice table of each child is
   computed from the child's own domains, and construction fails with
   ValueError if the repeat count derived from the auxiliary domains of a child
   differs from the secondary_dimensions_npts of the concatenation. *)
C12_ChildRepeatMismatchRejected ==
    (/\ AuxiliaryValidated
     /\ op[1] = "DomainConcatenation"
     /\ PairwiseDisjoint(children)
     /\ ~AuxiliaryMismatch(children)
     /\ \E i \in 1..Len(children) :
            ChildRepeats(full_mesh, children[i]) # ChildRepeats(full_mesh, children[1]))
        => Raised(result, "ValueError")

(* What the constructor does instead: the test of create_slices compares the
   repeat count of the concatenation with itself, so no DomainConcatenation
   construction ends in ValueError, and every child's table has
   secondary_dimensions_npts ranges per domain name of the child. *)
C12_NeverValueError ==
    (pc # "start" /\ op[1] = "DomainConcatenation") =>
        /\ ~Raised(result, "ValueError")
        /\ ~IsError(result) =>
               \A i \in 1..Len(children) :
                   \A k \in 1..Len(result.children_slices[i]) :
                       /\ result.children_slices[i][k].dom
                              = children[i].domains.primary[k]
                       /\ Len(result.children_slices[i][k].list)
                              = result.secondary_dimensions_npts

\* a child without auxiliary domains sits in a concatenation that repeats
C12_MismatchAccepted ==
    /\ AuxiliaryValidated
    /\ op[1] = "DomainConcatenation"
    /\ Len(children) = 2
    /\ ChildRepeats(full_mesh, children[2]) = 1
    /\ ~IsError(result)
    /\ result.secondary_dimensions_npts > 1

\* the level of the first child, in child order, where it is not empty
RECURSIVE FirstNonEmpty(_, _)
FirstNonEmpty(cs, level) ==
    IF cs = <<>> THEN <<>>
    ELSE IF Head(cs).domains[level] # <<>> THEN Head(cs).domains[level]
    ELSE FirstNonEmpty(Tail(cs), level)

\* get_children_domains has returned the domains of the children
DomainsReturned ==
    /\ AuxiliaryValidated
    /\ op[1] = "get_children_domains"
    /\ ~IsError(result)

(* C17: in the domains returned by get_children_domains, each auxiliary level
   is that of the first child, in child order, whose level is non-empty (empty
   only if it is empty in every child); when child 0 has an empty level and a
   later child a non-empty one, the result has the later child's. *)
C17_AuxiliaryFromFirstNonEmpty ==
    DomainsReturned =>
        \A l \in 1..Len(AuxLevels) :
            result.domains[AuxLevels[l]] = FirstNonEmpty(children, AuxLevels[l])

(* What get_children_domains returns instead: the auxiliary levels of child 0,
   empty or not. *)
C17_AuxiliaryFromFirstChild ==
    DomainsReturned =>
        \A l \in 1..Len(AuxLevels) :
            result.domains[AuxLevels[l]] = children[1].domains[AuxLevels[l]]

\* child 0 has no secondary domain, child 1 has one, and the result has none
C17_LaterLevelDropped ==
    /\ DomainsReturned
    /\ Len(children) = 2
    /\ children[1].domains.secondary = <<>>
    /\ children[2].domains.secondary = <<CurrentCollector>>
    /\ result.domains.secondary = <<>>

\* the names of the auxiliary levels of domains, level after level
AuxiliaryNames(domains) == domains.secondary \o domains.tertiary \o domains.quaternary

\* the product of the point counts of the first n names, 1 for no name
RECURSIVE PointsProduct(_, _, _)
PointsProduct(mesh, names, n) ==
    IF n = 0 THEN 1 ELSE mesh[names[n]] * PointsProduct(mesh, names, n - 1)

(* C18: secondary_dimensions_npts of a DomainConcatenation is the product, over
   every auxiliary level that is non-empty in the domains of the concatenation
   and every domain name of that level, of the point count of that name in the
   mesh; it is 1 when there is no auxiliary level. *)
C18_RepeatsArePointsProduct ==
    (pc # "start" /\ op[1] = "DomainConcatenation" /\ ~IsError(result)) =>
        LET names == AuxiliaryNames(result.domains) IN
        /\ result.secondary_dimensions_npts = PointsProduct(full_mesh, names, Len(names))
        /\ names = <<>> => result.secondary_dimensions_npts = 1

\* a concatenation with three auxiliary levels, and two names on one level
C18_Witness ==
    /\ pc # "start"
    /\ op[1] = "DomainConcatenation"
    /\ ~IsError(result)
    /\ Len(AuxiliaryNames(result.domains)) = 3
    /\ result.secondary_dimensions_npts = MaxRepeat * MaxRepeat

C18_WitnessTwoNames ==
    /\ pc # "start"
    /\ op[1] = "DomainConcatenation"
    /\ ~IsError(result)
    /\ Len(result.domains.secondary) = 2
    /\ result.secondary_dimensions_npts = MaxRepeat

----------------------------------------------------------------------------
(* Further properties of the runs over every constructor (SpecConstruct) *)

\* the arguments a construction works on: the helper drops those that are None
Kept(name, cs) == IF name = "concatenation" THEN FilterNone(cs) ELSE cs

\* a construction has been applied to one or more Variables and nothing else
VariablesGiven ==
    /\ pc # "start"
    /\ Kept(op[1], children) # <<>>
    /\ \A i \in 1..Len(Kept(op[1], children)) : IsVariable(Kept(op[1], children)[i])

\* Variables that can be joined: disjoint domains, same scale, reference, bounds
Joinable(cs) ==
    /\ Len(cs) >= 2
    /\ PairwiseDisjoint(cs)
    /\ VariableAttributesError(cs) = Null

(* C13: the base Concatenation built directly from children that are all
   Variables is rejected with TypeError; ConcatenationVariable,
   NumpyConcatenation, DomainConcatenation and SparseStack take such children
   (no TypeError, and the node is built when the Variables can be joined); the
   concatenation helper given two or more Variables goes to
   ConcatenationVariable: it returns one, or the error of its constructor. *)
C13_VariablesRouted ==
    VariablesGiven =>
        LET cs == Kept(op[1], children) IN
        CASE op[1] = "Concatenation" -> Raised(result, "TypeError")
          [] op[1] \in {"NumpyConcatenation", "SparseStack"} -> result.kind = op[1]
          [] op[1] \in {"ConcatenationVariable", "DomainConcatenation"} ->
                 /\ ~Raised(result, "TypeError")
                 /\ Joinable(cs) => result.kind = op[1]
          [] op[1] = "concatenation" /\ Len(cs) >= 2 ->
                 /\ result.kind # "Concatenation"
                 /\ ~Raised(result, "TypeError")
                 /\ result \in ConcatenationVariableInit(cs)
                 /\ Joinable(cs) => result.kind = "ConcatenationVariable"
          [] OTHER -> TRUE

\* the base class has refused two Variables that the helper would join
C13_Witness ==
    /\ VariablesGiven
    /\ op[1] = "Concatenation"
    /\ Joinable(children)
    /\ Raised(result, "TypeError")

C13_WitnessHelper ==
    /\ VariablesGiven
    /\ op[1] = "concatenation"
    /\ None \in Range(children)
    /\ result.kind = "ConcatenationVariable"

\* the Jacobian of a concatenation node has been asked for
JacRequested == pc = "done" /\ op[2] = "jac"

\* a child of the node spans more than one primary domain
MultiDomainChild(node) ==
    \E i \in 1..Len(node.children) : Len(node.children[i].domains.primary) > 1

(* C15: the Jacobian of a DomainConcatenation in which a child spans more than
   one primary domain raises NotImplementedError and returns no stack, and so
   does the Jacobian of a class without a rule of its own: the base
   Concatenation, SparseStack and ConcatenationVariable. *)
C15_JacNotImplemented ==
    JacRequested =>
        /\ (result.kind = "DomainConcatenation" /\ MultiDomainChild(result))
               => Raised(out, "NotImplementedError")
        /\ result.kind \in {"Concatenation", "SparseStack", "ConcatenationVariable"}
               => Raised(out, "NotImplementedError")

\* a DomainConcatenation whose second child spans two domains
C15_Witness ==
    /\ JacRequested
    /\ result.kind = "DomainConcatenation"
    /\ Len(result.children) = 2
    /\ Len(result.children[1].domains.primary) = 1
    /\ Len(result.children[2].domains.primary) = 2
    /\ Raised(out, "NotImplementedError")

C15_WitnessBase ==
    /\ JacRequested
    /\ result.kind = "ConcatenationVariable"
    /\ Raised(out, "NotImplementedError")

\* a domain-checked construction has been given a child that is no Symbol
NonSymbolGiven ==
    /\ pc # "start"
    /\ \/ op[1] \in {"Concatenation", "DomainConcatenation", "domain_concatenation"}
       \/ op[1] = "concatenation" /\ Len(FilterNone(children)) >= 2
    /\ \E i \in 1..Len(Kept(op[1], children)) : ~IsSymbol(Kept(op[1], children)[i])

(* C16 as stated: a domain-checked concatenation built with a child that is no
   Symbol fails with TypeError, wherever that child stands and whatever the
   domains of the others. *)
C16_NonSymbolAlwaysTypeError == NonSymbolGiven => Raised(result, "TypeError")

\* the position of the first child that is no Symbol
FirstNonSymbol(cs) ==
    CHOOSE k \in 1..Len(cs) :
        ~IsSymbol(cs[k]) /\ \A j \in 1..(k - 1) : IsSymbol(cs[j])

(* C16, amended: building a Concatenation or a DomainConcatenation (directly,
   through domain_concatenation, or through the concatenation helper given two
   or more arguments that are not None) with a child that is no Symbol always
   fails; the children are validated in order, so the error is TypeError when
   every child before the first non-Symbol has a non-empty primary domain
   disjoint from those before it, and DomainError when one of them has not. *)
C16_NonSymbolRejected ==
    NonSymbolGiven =>
        LET cs == Kept(op[1], children)
            k == FirstNonSymbol(cs)
        IN  /\ IsError(result)
            /\ result.error = IF DisjointNonEmpty(SubSeq(cs, 1, k - 1))
                                  THEN "TypeError" ELSE "DomainError"

\* the last of three children is no Symbol, the two before are disjoint
C16_Witness ==
    /\ NonSymbolGiven
    /\ op[1] = "DomainConcatenation"
    /\ Len(children) = 3
    /\ DisjointNonEmpty(SubSeq(children, 1, 2))
    /\ children[3] = NotSymbol
    /\ Raised(result, "TypeError")

----------------------------------------------------------------------------
(* Properties of the runs over Variables of differing attributes (SpecVariables) *)

\* ConcatenationVariable has been applied to two or more Variables
VariablesJoined ==
    /\ pc # "start"
    /\ op[1] = "ConcatenationVariable"
    /\ Len(children) >= 2

\* some child differs from child 0 in scale, reference, lower or upper bound
DiffersFromFirst(cs) ==
    \E i \in 1..Len(cs) :
        \/ cs[i].scale # cs[1].scale
        \/ cs[i].reference # cs[1].reference
        \/ cs[i].bounds[1] # cs[1].bounds[1]
        \/ cs[i].bounds[2] # cs[1].bounds[2]

(* C14: the construction of a ConcatenationVariable fails with ValueError
   whenever a child differs from child 0 in scale, in reference, in lower bound
   or in upper bound; when all children agree, the scale, reference and bounds
   of the result are those of child 0. *)
C14_AttributesAgreeOrValueError ==
    VariablesJoined =>
        IF DiffersFromFirst(children) THEN Raised(result, "ValueError")
        ELSE /\ ~Raised(result, "ValueError")
             /\ ~IsError(result) =>
                    /\ result.kind = "ConcatenationVariable"
                    /\ result.scale = children[1].scale
                    /\ result.reference = children[1].reference
                    /\ result.bounds = children[1].bounds

\* the last of three Variables on disjoint domains has another upper bound
C14_Witness ==
    /\ VariablesJoined
    /\ Len(children) = 3
    /\ PairwiseDisjoint(children)
    /\ ~DiffersFromFirst(SubSeq(children, 1, 2))
    /\ children[3].bounds[2] # children[1].bounds[2]
    /\ result = Raise("ValueError", "Cannot concatenate symbols with different bounds")

C14_WitnessAgree ==
    /\ VariablesJoined
    /\ children[1].scale = 2
    /\ ~IsError(result)
    /\ result.scale = 2

----------------------------------------------------------------------------
(* Properties of the evaluation of a collapsed concatenation (SpecCollapse) *)

\* domain_concatenation returned one StateVector, which was evaluated
CollapsedEvaluated ==
    /\ pc = "done"
    /\ op = <<"domain_concatenation", "evaluate">>
    /\ IsStateVector(result)
    /\ AllStateVectors(children)

\* the DomainConcatenation of the children, not simplified
Unsimplified == DomainConcatenationInit(children, full_mesh, Null)

\* the rows child number c would read were it laid out as the ranges the
\* concatenation keeps for the domain of the child, from row first on
LaidOutAsConcatenation ==
    LET first == FirstStart(children)
    IN  \A c \in 1..Len(children) :
            LET mine == Lookup(Unsimplified.slices, children[c].domains.primary[1]) IN
            StateVectorEvaluate(children[c]) =
                StateVectorEvaluate(StateVector(
                    [k \in 1..Len(mine) |->
                        Slice(first + mine[k].start, first + mine[k].stop)],
                    children[c].domains))

(* C19: whenever simplified_domain_concatenation collapses StateVector children
   into one StateVector over [a, b), evaluating it on a state vector y gives
   the vector that evaluating the DomainConcatenation of the same children on
   y gives, also when the repeat count is above 1 and each child reads one
   contiguous range. *)
C19_CollapseKeepsValue ==
    CollapsedEvaluated =>
        /\ ~IsError(EvaluateNode(Unsimplified))
        /\ out.vector = EvaluateNode(Unsimplified).vector

\* the collapse keeps the value when every child reads the rows the
\* concatenation lays out for it
C19_HoldsForConcatenationLayout ==
    (CollapsedEvaluated /\ LaidOutAsConcatenation) =>
        /\ ~IsError(EvaluateNode(Unsimplified))
        /\ out.vector = EvaluateNode(Unsimplified).vector

\* two children with a repeat count above 1, each reading one contiguous
\* range, collapse to a StateVector whose value is not the concatenation's
C19_BlocksCollapsed ==
    /\ CollapsedEvaluated
    /\ Len(children) = 2
    /\ Unsimplified.secondary_dimensions_npts > 1
    /\ \A c \in 1..2 : Len(children[c].y_slices) = 1
    /\ out.vector # EvaluateNode(Unsimplified).vector

\* children laid out as the concatenation lays them out, repeated, collapse
C19_LayoutCollapsed ==
    /\ CollapsedEvaluated
    /\ Len(children) = 3
    /\ Unsimplified.secondary_dimensions_npts > 1
    /\ LaidOutAsConcatenation
    /\ out.vector = EvaluateNode(Unsimplified).vector

----------------------------------------------------------------------------
(* Further properties of the runs over named Variables (SpecNames) *)

\* a ConcatenationVariable has been built from the children
NamesMerged ==
    /\ pc # "start"
    /\ result.kind = "ConcatenationVariable"

\* the trimmed longest common substrings that the pairwise intersection of the
\* names of the children may end with (the empty name when there is none)
CommonNames(cs) == IntersectRest(intersect(cs[1].name, cs[2].name), cs, 3)

\* the name of the node for a merged name that is unset
UnsetName == ConcatenationName

(* C20 as stated: the merged name of a ConcatenationVariable is unset (None)
   when the names of the children have no common substring, and the first
   character of every other merged name is capitalized, also that of a merged
   name of exactly one character. *)
C20_EveryNameCapitalized ==
    NamesMerged =>
        result.name \in
            {IF n = <<>> THEN UnsetName ELSE <<Capitalize(n[1])>> \o Tail(n) :
                 n \in CommonNames(children)}

(* C20, amended: the merged name is unset (None, so that the node is named
   "concatenation") when the names of the children have no common substring or
   the longest one kept is only white space; a merged name of exactly one
   character is left as it is, not capitalized; the first character of every
   longer merged name is capitalized. *)
C20_OneCharacterUnchanged ==
    NamesMerged =>
        /\ result.name \in
               {IF n = <<>> THEN UnsetName
                ELSE IF Len(n) = 1 THEN n
                ELSE <<Capitalize(n[1])>> \o Tail(n) :
                    n \in CommonNames(children)}
        /\ substrings(children[1].name) \cap substrings(children[2].name) = {}
               => result.name = UnsetName

\* two names that share single characters only give a lower-case name
C20_Witness ==
    /\ NamesMerged
    /\ Len(children) = 2
    /\ children[1].name = <<"x", " ", "p", "a">>
    /\ children[2].name = <<"a", "b", " ", "x">>
    /\ result.name = <<"x">>

C20_WitnessUnset ==
    /\ NamesMerged
    /\ Len(children) = 2
    /\ children[2].name = <<"Q">>
    /\ Len(children[1].name) > 1
    /\ result.name = UnsetName

C20_WitnessWhiteSpace ==
    /\ NamesMerged
    /\ Len(children) = 2
    /\ <<" ">> \in substrings(children[1].name) \cap substrings(children[2].name)
    /\ result.name = UnsetName

----------------------------------------------------------------------------
(* Properties of the copies (SpecOperations) *)

\* a concatenation node has been built by its constructor and copied
Copied == pc = "done" /\ op[2] = "create_copy"

\* the constructors that simplify what they build
SimplifyingConstructors ==
    {"concatenation", "simplified_concatenation", "numpy_concatenation",
     "simplified_numpy_concatenation", "domain_concatenation",
     "simplified_domain_concatenation"}

(* C21 as stated: create_copy of a concatenation of any kind rebuilds the node
   from the copies of its children through a simplifying constructor, never
   through a constructor of a class: Concatenation and ConcatenationVariable
   through concatenation, NumpyConcatenation through numpy_concatenation,
   DomainConcatenation through simplified_domain_concatenation, and SparseStack
   through a simplifying constructor too. *)
C21_CopyBySimplifyingConstructor ==
    Copied =>
        /\ op[3] \in SimplifyingConstructors
        /\ result.kind \in {"Concatenation", "ConcatenationVariable"}
               => op[3] = "concatenation" /\ out \in concatenation(result.children)
        /\ result.kind = "NumpyConcatenation"
               => op[3] = "numpy_concatenation"
                  /\ out = numpy_concatenation(result.children)
        /\ result.kind = "DomainConcatenation"
               => op[3] = "simplified_domain_concatenation"
                  /\ out = simplified_domain_concatenation(result.children,
                                                           result.full_mesh, result)

(* C21, amended: create_copy rebuilds Concatenation and ConcatenationVariable
   through concatenation, NumpyConcatenation through numpy_concatenation and
   DomainConcatenation through simplified_domain_concatenation, each from the
   copies of the children; SparseStack is rebuilt by the SparseStack
   constructor itself, there being no simplifying constructor for it. *)
C21_CopyByConstructorOfKind ==
    Copied =>
        /\ result.kind \in {"Concatenation", "ConcatenationVariable"}
               => op[3] = "concatenation" /\ out \in concatenation(result.children)
        /\ result.kind = "NumpyConcatenation"
               => op[3] = "numpy_concatenation"
                  /\ out = numpy_concatenation(result.children)
        /\ result.kind = "DomainConcatenation"
               => op[3] = "simplified_domain_concatenation"
                  /\ out = simplified_domain_concatenation(result.children,
                                                           result.full_mesh, result)
        /\ result.kind = "SparseStack"
               => op[3] = "SparseStack" /\ out = SparseStackInit(result.children)

\* the copy of a NumpyConcatenation with a NumpyConcatenation child has the
\* children of that child
C21_Witness ==
    /\ Copied
    /\ result.kind = "NumpyConcatenation"
    /\ Len(result.children) = 2
    /\ result.children[1].kind = "NumpyConcatenation"
    /\ out.kind = "NumpyConcatenation"
    /\ Len(out.children) = 3

\* the copy of a SparseStack is a SparseStack of the same children
C21_WitnessSparseStack ==
    /\ Copied
    /\ result.kind = "SparseStack"
    /\ Len(result.children) = 2
    /\ out = result

----------------------------------------------------------------------------
(* Further properties of the simplifying constructors (SpecSimplify) *)

\* numpy_concatenation has returned a NumpyConcatenation
NumpyJoined ==
    /\ pc # "start"
    /\ op[1] = "numpy_concatenation"
    /\ result.kind = "NumpyConcatenation"

\* the leaves of the arguments from left to right: what is left when every
\* NumpyConcatenation, however deep, is replaced by its children
RECURSIVE NumpyLeaves(_)
NumpyLeaves(cs) ==
    IF cs = <<>> THEN <<>>
    ELSE (IF Head(cs).kind = "NumpyConcatenation" THEN NumpyLeaves(Head(cs).children)
          ELSE <<Head(cs)>>)
         \o NumpyLeaves(Tail(cs))

\* a leaf as a child of a NumpyConcatenation: a number is made a vector
AsVector(leaf) == IF EvaluatesToNumber(leaf) THEN TimesVector1(leaf) ELSE leaf

\* an argument is a NumpyConcatenation that has a NumpyConcatenation child
NestedTwice(cs) ==
    \E i \in 1..Len(cs) :
        /\ cs[i].kind = "NumpyConcatenation"
        /\ \E j \in 1..Len(cs[i].children) :
               cs[i].children[j].kind = "NumpyConcatenation"

(* C22: the NumpyConcatenation that numpy_concatenation returns has no child
   that is a NumpyConcatenation, and its children are the leaves of the
   arguments from left to right, also for arguments that are
   NumpyConcatenations nested more than one level deep. *)
C22_NumpyFlattenedToLeaves ==
    NumpyJoined =>
        /\ \A i \in 1..Len(result.children) :
               result.children[i].kind # "NumpyConcatenation"
        /\ result.children =
               [i \in 1..Len(NumpyLeaves(children)) |-> AsVector(NumpyLeaves(children)[i])]

\* the same holds of arguments nested one level deep at most
C22_HoldsOneLevelDeep ==
    (NumpyJoined /\ ~NestedTwice(children)) =>
        /\ \A i \in 1..Len(result.children) :
               result.children[i].kind # "NumpyConcatenation"
        /\ result.children =
               [i \in 1..Len(NumpyLeaves(children)) |-> AsVector(NumpyLeaves(children)[i])]

\* an argument nested two levels deep leaves a NumpyConcatenation child
C22_NestedChildKept ==
    /\ NumpyJoined
    /\ children = <<NumpyNested>>
    /\ Len(result.children) = 2
    /\ result.children[1] = NumpyPair

\* an argument nested one level deep is flattened
C22_PairFlattened ==
    /\ NumpyJoined
    /\ Len(children) = 2
    /\ children[1] = NumpyPair
    /\ Len(result.children) = 3

----------------------------------------------------------------------------
(* Properties of the concatenation of broadcasts (SpecBroadcast) *)

\* the helper has been given two or more broadcasts of one value
BroadcastsGiven ==
    /\ pc # "start"
    /\ op[1] = "concatenation"
    /\ Len(children) >= 2
    /\ \A i \in 1..Len(children) :
           IsBroadcast(children[i]) /\ children[i].children = children[1].children

\* a node that has a primary domain only
PrimaryOnly(node) ==
    /\ node.domains.secondary = <<>>
    /\ node.domains.tertiary = <<>>
    /\ node.domains.quaternary = <<>>

(* C23 as stated: when every child given to concatenation is a broadcast of the
   same value, the result is one broadcast of that value over the union of the
   domains of the children, a PrimaryBroadcast when the result has a primary
   domain only and a FullBroadcast when it has a non-empty auxiliary domain,
   whatever the class of the first child. *)
C23_BroadcastKindByDomains ==
    BroadcastsGiven =>
        /\ IsBroadcast(result)
        /\ result.children = children[1].children
        /\ result.domains.primary = Flatten(children)
        /\ result.kind = IF PrimaryOnly(result) THEN "PrimaryBroadcast" ELSE "FullBroadcast"

(* C23, amended: when every child given to concatenation is a broadcast of the
   same value and the children pass the domain validation of Concatenation,
   the result is one broadcast of that value over the union of the primary
   domains of the children, and its class is that of the first child: a
   PrimaryBroadcast when the first child is a PrimaryBroadcast, otherwise a
   FullBroadcast with the auxiliary domains of the first child. When the
   validation fails, the result is its error. *)
C23_BroadcastKindOfFirst ==
    BroadcastsGiven =>
        IF IsError(get_children_domains(children))
            THEN result = get_children_domains(children)
        ELSE /\ IsBroadcast(result)
             /\ result.children = children[1].children
             /\ result.domains.primary = Flatten(children)
             /\ result.kind = IF children[1].kind = "PrimaryBroadcast"
                                  THEN "PrimaryBroadcast" ELSE "FullBroadcast"
             /\ result.kind = "FullBroadcast" =>
                    /\ result.domains.secondary = children[1].domains.secondary
                    /\ result.domains.tertiary = children[1].domains.tertiary
                    /\ result.domains.quaternary = children[1].domains.quaternary

\* two FullBroadcasts that have a primary domain only give a FullBroadcast
C23_Witness ==
    /\ BroadcastsGiven
    /\ Len(children) = 2
    /\ children[1].kind = "FullBroadcast"
    /\ PrimaryOnly(children[1]) /\ PrimaryOnly(children[2])
    /\ result.kind = "FullBroadcast"
    /\ PrimaryOnly(result)

\* two PrimaryBroadcasts of a symbol that has a domain give a PrimaryBroadcast
\* with an auxiliary domain
C23_WitnessPrimary ==
    /\ BroadcastsGiven
    /\ children[1].kind = "PrimaryBroadcast"
    /\ result.kind = "PrimaryBroadcast"
    /\ result.domains.secondary = <<CurrentCollector>>

\* where the claim and the code agree: PrimaryBroadcasts of a number
C23_WitnessAgree ==
    /\ BroadcastsGiven
    /\ Len(children) = 2
    /\ result.kind = "PrimaryBroadcast"
    /\ PrimaryOnly(result)
    /\ result.domains.primary = <<NegativeElectrode, Separator>>

----------------------------------------------------------------------------
(* Properties of the derivatives (SpecOperations) *)

\* a concatenation node has been built by its constructor and differentiated
Differentiated == pc = "done" /\ op[2] = "diff"

\* the derivatives of the children of the node, in the order of the children
ChildrenDiffs(node) == [i \in 1..Len(node.children) |-> ChildDiff(node.children[i])]

(* C24: _diff of a concatenation with exactly one child returns the derivative
   of that child itself; with two or more children it returns a node of the
   class of the original whose children are the derivatives of the children
   in the original order, for every class, DomainConcatenation included. *)
C24_DiffRewrapsInSameClass ==
    Differentiated =>
        /\ Len(result.children) = 1 => out = ChildDiff(result.children[1])
        /\ Len(result.children) >= 2 =>
               /\ out.kind = result.kind
               /\ out.children = ChildrenDiffs(result)

\* the same holds of every class but DomainConcatenation
C24_HoldsExceptDomainConcatenation ==
    (Differentiated /\ result.kind # "DomainConcatenation") =>
        /\ Len(result.children) = 1 => out = ChildDiff(result.children[1])
        /\ Len(result.children) >= 2 =>
               /\ out.kind = result.kind
               /\ out.children = ChildrenDiffs(result)

\* _diff of a DomainConcatenation of two children ends in an error
C24_DomainConcatenationDiffFails ==
    /\ Differentiated
    /\ result.kind = "DomainConcatenation"
    /\ Len(result.children) = 2
    /\ IsError(out)

\* _diff of a DomainConcatenation of one child is the derivative of the child
C24_OneChildDiff ==
    /\ Differentiated
    /\ result.kind = "DomainConcatenation"
    /\ Len(result.children) = 1
    /\ out = ChildDiff(result.children[1])

\* _diff of a base Concatenation of two children is a Concatenation
C24_ConcatenationDiff ==
    /\ Differentiated
    /\ result.kind = "Concatenation"
    /\ Len(result.children) = 2
    /\ out.kind = "Concatenation"
    /\ out.children = ChildrenDiffs(result)

----------------------------------------------------------------------------
(* Properties of the copy-construction path (SpecOperations) *)

\* a DomainConcatenation has been built from children and full_mesh, and
\* another one from it as copy_this
CopyConstructed == pc = "done" /\ op[2] = "copy_this"

\* the domains of the children of a node, child by child
ChildrenDomains(node) == [i \in 1..Len(node.children) |-> node.children[i].domains]

\* the ranges of the node lay out [0, size) on the mesh of the node: repeat
\* after repeat and domain after domain, each as long as the domain has points
SlicesPartition(node) ==
    LET n == Len(node.domains.primary)
        reps == node.secondary_dimensions_npts
        At(k) == Lookup(node.slices, node.domains.primary[((k - 1) % n) + 1])
                     [((k - 1) \div n) + 1]
    IN  /\ n >= 1 /\ reps >= 1
        /\ Len(node.slices) = n
        /\ \A d \in 1..n : Len(Lookup(node.slices, node.domains.primary[d])) = reps
        /\ At(1).start = 0
        /\ \A k \in 1..(n * reps) :
               /\ At(k).stop - At(k).start
                      = node.full_mesh[node.domains.primary[((k - 1) % n) + 1]]
               /\ k > 1 => At(k).start = At(k - 1).stop
        /\ At(n * reps).stop = node.size

(* C25: building a DomainConcatenation with copy_this given leaves the mesh,
   the slices, the size, the slices of the children and the repeat count of
   the original as they were and the mesh as it was, and gives the clone values
   equal to those of the original; when the children of the clone have the
   domains of the children of the original, the clone satisfies the partition
   invariant as an instance computed afresh does. *)
C25_CopyReusesLayout ==
    CopyConstructed =>
        /\ result = DomainConcatenationInit(children, full_mesh, Null)
        /\ result.full_mesh = full_mesh
        /\ ~IsError(out) =>
               /\ out.kind = "DomainConcatenation"
               /\ out.full_mesh = result.full_mesh
               /\ out.slices = result.slices
               /\ out.size = result.size
               /\ out.children_slices = result.children_slices
               /\ out.secondary_dimensions_npts = result.secondary_dimensions_npts
               /\ ChildrenDomains(out) = ChildrenDomains(result) =>
                      /\ SlicesPartition(out)
                      /\ out = DomainConcatenationInit(out.children, out.full_mesh, Null)

\* the clone of a node of two repeated children, from the same children: it
\* was given another mesh and has the mesh of the original
C25_Witness ==
    /\ CopyConstructed
    /\ Len(result.children) = 2
    /\ result.secondary_dimensions_npts > 1
    /\ ~IsError(out)
    /\ out.children = result.children
    /\ out.full_mesh = ExampleMesh
    /\ SlicesPartition(out)

\* a clone with a child on another domain keeps the slices of the original
C25_WitnessOtherDomain ==
    /\ CopyConstructed
    /\ ~IsError(out)
    /\ out.domains.primary = <<PositiveElectrode>>
    /\ out.slices = result.slices
    /\ ~SlicesPartition(out)

----------------------------------------------------------------------------
(* Properties of the concatenation helper (SpecSimplify) *)

\* the concatenation helper has been called and has returned or raised
HelperCalled == pc # "start" /\ op[1] = "concatenation"

\* the arguments that are not None, in the order given
NotNone(cs) == LET IsGiven(x) == x # None IN SelectSeq(cs, IsGiven)

\* the children are broadcasts of one value
SameBroadcasts(cs) ==
    \A i \in 1..Len(cs) : IsBroadcast(cs[i]) /\ cs[i].children = cs[1].children

(* C26 as stated: the concatenation helper ignores the arguments that are
   None; when exactly one other argument is left it returns that argument
   itself, without validating its domain or its type; when two or more are
   left, the children of the result are those arguments in the order given. *)
C26_HelperKeepsNotNone ==
    HelperCalled =>
        /\ Len(NotNone(children)) = 1 => result = NotNone(children)[1]
        /\ (Len(NotNone(children)) >= 2 /\ ~IsError(result))
               => result.children = NotNone(children)

(* C26, amended: the same, except that two or more arguments that are all
   broadcasts of one value give a single broadcast whose only child is that
   value; in every other case the result is a Concatenation or a
   ConcatenationVariable whose children are the arguments that are not None
   in the order given. *)
C26_HelperKeepsNotNoneOrBroadcasts ==
    HelperCalled =>
        /\ Len(NotNone(children)) = 1 => result = NotNone(children)[1]
        /\ (Len(NotNone(children)) >= 2 /\ ~IsError(result)) =>
               IF SameBroadcasts(NotNone(children))
                   THEN /\ IsBroadcast(result)
                        /\ result.children = NotNone(children)[1].children
               ELSE /\ result.kind \in {"Concatenation", "ConcatenationVariable"}
                    /\ result.children = NotNone(children)

\* a lone number, which has no domain, is returned as it is
C26_Witness ==
    /\ HelperCalled
    /\ children = <<None, Scalar(1), None>>
    /\ result = Scalar(1)

\* the None between two symbols is dropped
C26_WitnessOrder ==
    /\ HelperCalled
    /\ Len(children) = 3
    /\ children[2] = None
    /\ result.kind = "Concatenation"
    /\ result.children = <<children[1], children[3]>>

\* two broadcasts of the number 1 give one broadcast of it
C26_WitnessBroadcasts ==
    /\ HelperCalled
    /\ Len(NotNone(children)) = 2
    /\ result.kind = "PrimaryBroadcast"
    /\ result.children = <<Scalar(1)>>

----------------------------------------------------------------------------
(* Properties of the Jacobian of a NumpyConcatenation and of SparseStack
   (SpecJacobian) *)

\* the Jacobian of a NumpyConcatenation built by its constructor was taken
NumpyJacTaken ==
    /\ pc = "done"
    /\ op = <<"NumpyConcatenation", "jac">>
    /\ result.kind = "NumpyConcatenation"

\* a SparseStack has been built by its constructor
SparseStackBuilt ==
    /\ pc # "start"
    /\ op[1] = "SparseStack"
    /\ ~IsError(result)

\* a child of the list evaluates for shape to a sparse matrix
SomeSparse(cs) == \E i \in 1..Len(cs) : IsSparse(cs[i])

(* C27: the Jacobian of a NumpyConcatenation is the SparseStack of the Jacobians
   of its children in the order of the children, and the zero scalar, not an
   error, when it has no children; SparseStack takes the sparse stack function
   if and only if the shape-only evaluation of one child at least is sparse,
   and the dense vertical stack otherwise. *)
C27_JacIsSparseStack ==
    /\ NumpyJacTaken =>
           IF result.children = <<>> THEN out = Scalar(0)
           ELSE /\ out.kind = "SparseStack"
                /\ out.children = [j \in 1..Len(result.children) |-> ChildJacobian(j)]
    /\ SparseStackBuilt =>
           /\ result.kind = "SparseStack"
           /\ result.children = children
           /\ result.concatenation_function = SparseVstack <=> SomeSparse(children)
           /\ result.concatenation_function = DenseVstack <=> ~SomeSparse(children)

\* a dense matrix above a sparse one is stacked by the sparse function
C27_Witness ==
    /\ SparseStackBuilt
    /\ children = <<Matrix(FALSE), Matrix(TRUE)>>
    /\ result.concatenation_function = SparseVstack

\* dense children only are stacked by the dense function
C27_WitnessDense ==
    /\ SparseStackBuilt
    /\ children = <<Matrix(FALSE), Symbol(<<"a">>, <<NegativeElectrode>>, <<>>)>>
    /\ result.concatenation_function = DenseVstack

\* the Jacobian of a NumpyConcatenation of three children stacks three blocks
C27_WitnessJac ==
    /\ NumpyJacTaken
    /\ Len(result.children) = 3
    /\ out.kind = "SparseStack"
    /\ out.children = <<ChildJacobian(1), ChildJacobian(2), ChildJacobian(3)>>

\* the Jacobian of a NumpyConcatenation without children is the zero scalar
C27_WitnessEmpty ==
    /\ NumpyJacTaken
    /\ children = <<>>
    /\ out = Scalar(0)

====
